---- MODULE Spec2Model ----
(***************************************************************************)
(* Arandu Repro: the reproduction worker (process_job), the sandbox        *)
(* executor (execute_command), the review worker (process_review) and the  *)
(* review pipeline (LangGraph graph and run_pipeline_direct), modelled as  *)
(* state machines over the relational store, the queue, the repository     *)
(* and image stores and the container runtime.                             *)
(***************************************************************************)
EXTENDS Integers, Sequences, FiniteSets, TLC

(***************************************************************************)
(* Bounds of the model.                                                    *)
(***************************************************************************)
MaxJobs == 2
NumWorkers == 2
MaxDeliveries == 2
MaxRunTicks == 2
MaxReviews == 2

Jobs == 1..MaxJobs
Workers == 1..NumWorkers
Reviews == 1..MaxReviews

(***************************************************************************)
(* Values of the data model.                                               *)
(***************************************************************************)
\* JobStatus, plus "absent" for a row that has not been inserted yet.
JobStatus == {"pending", "running", "completed", "failed"}

\* ArtifactType
ArtifactType == {"report", "notebook", "badge"}

\* A nullable column holds NULL or Some(v).
NULL == <<>>
Some(v) == <<v>>

\* The exception classes process_job dispatches on; "Unexpected" stands for
\* any other Exception (shutil.Error, IntegrityError, OSError, ...).
NamedErrors ==
    {"RepoCloneError", "NoEnvironmentDetectedError", "DockerBuildError",
     "ExecutionTimeoutError", "ExecutionError"}

ErrorKinds == NamedErrors \cup {"Unexpected"}

\* str(e): the text carried by a raised exception.
Msgs == {"m1", "m2"}

\* The prefix each except clause of process_job puts before str(e).
ErrorPrefix(kind) ==
    CASE kind = "RepoCloneError" -> "Repository clone failed: "
      [] kind = "NoEnvironmentDetectedError" -> "Environment detection failed: "
      [] kind = "DockerBuildError" -> "Docker build failed: "
      [] kind = "ExecutionTimeoutError" -> "Execution timeout: "
      [] kind = "ExecutionError" -> "Execution failed: "
      [] OTHER -> "Unexpected error: "

NoError == [kind |-> "none", msg |-> "none"]
NoResult == [exit_code |-> NULL, duration_seconds |-> NULL, started_at |-> NULL]

VARIABLES
    \* ---- relational store (committed rows) ----
    jobs,          \* jobs[j]: [status, error_message]; status "absent" before the insert
    runs,          \* runs[j]: the Run rows whose job_id is j (a sequence of rows)
    artifacts,     \* artifacts[j][t]: number of Artifact rows of type t for job j
    \* ---- queue "default" ----
    queued,        \* queued[j]: work items carrying job id j that wait in the queue
    delivered,     \* delivered[j]: how often job id j has been enqueued
    apiPc,         \* apiPc[j]: position of the create_job request for j
    \* ---- host state ----
    repoDir,       \* repoDir[j]: temp_repos_path/<j>/<name> exists
    repoFiles,     \* repoFiles[j]: the environment files of the tree clone_repo returned
    image,         \* image[j]: image arandu-job-<j>:latest exists
    badgeFile,     \* badgeFile[j]: status text written into badge.md
    now,           \* wall clock
    \* ---- one process_job invocation per worker ----
    pc,            \* pc[w]: position of worker w in process_job
    jid,           \* jid[w]: the job id worker w was handed
    loaded,        \* loaded[w]: job.status as held by w's session, or "expired"
    pendingArts,   \* pendingArts[w]: Artifact objects added to w's session, not flushed
    repo_path,     \* repo_path[w]: local variable repo_path is set
    image_tag,     \* image_tag[w]: local variable image_tag is set
    err,           \* err[w]: the exception that left the try block
    result,        \* result[w]: execution_result
    \* ---- history ----
    stageRuns      \* stageRuns[j]: how often process_job started its pipeline for j

jobVars ==
    <<jobs, runs, artifacts, queued, delivered, apiPc, repoDir, image, badgeFile,
      now, pc, jid, loaded, pendingArts, repo_path, image_tag, err, result,
      stageRuns, repoFiles>>

VARIABLES
    \* ---- one execute_command invocation ----
    settings,      \* app.config.settings: the docker_* fields
    epc,           \* position in execute_command
    eerr,          \* the exception execute_command raised: [kind, msg]
    runCalls,      \* number of calls of client.containers.run
    container,     \* "none", "created", "running", "exited", "stopped", "removed"
    etime,         \* time.time()
    start_time,    \* local variable start_time
    waitOutcome,   \* how container.wait ended: "none", "exit", "timeout", "error"
    stopArgs,      \* the timeout arguments container.stop was called with
    eresult        \* the ExecutionResult returned

execVars ==
    <<settings, epc, eerr, runCalls, container, etime, start_time, waitOutcome,
      stopArgs, eresult>>

VARIABLES
    \* ---- table reviews, queue "reviews", one process_review per worker ----
    reviews,       \* reviews[r]: [status, error_message]; "absent" before the insert
    rQueued,       \* rQueued[r]: work items carrying review id r
    rApiPc,        \* rApiPc[r]: position of the create_review request for r
    rpc,           \* rpc[w]: position of worker w in process_review
    rid,           \* rid[w]: the review id worker w was handed
    final_state,   \* final_state[w]: final_state.get("status") of pipeline.invoke
    rerr           \* rerr[w]: str(e) of the exception that left the try block

reviewVars == <<reviews, rQueued, rApiPc, rpc, rid, final_state, rerr>>

VARIABLES
    \* ---- one run of the review pipeline ----
    pmode,         \* "langgraph" (pipeline.invoke) or "direct" (run_pipeline_direct)
    channels,      \* graph: the state channels; direct: local variable state
    ppc,           \* "idle", "running", "returned", "raised"
    active,        \* the nodes of the current superstep / the next direct call
    started,       \* nodes of the current superstep whose function was called
    writes,        \* writes[n]: what node n of the current superstep returned
    dpos,          \* direct: index of the current statement of lines 95-101
    starts,        \* starts[n]: how often node n was called
    finishes,      \* finishes[n]: how often node n returned
    \* ---- history of the run ----
    input0,        \* the state dictionary the run was started with
    nodeInput,     \* nodeInput[n]: the dictionary node n was called with
    raisedIn,      \* the nodes whose try body raised
    merged,        \* input0 with every dictionary a node returned merged in
    ingestCalls    \* number of calls of ingest_paper

pipeVars ==
    <<pmode, channels, ppc, active, started, writes, dpos, starts, finishes,
      input0, nodeInput, raisedIn, merged, ingestCalls>>

VARIABLES
    \* ---- one call of _truncate_log ----
    log_content,   \* argument log_content, a sequence of characters
    max_bytes,     \* argument max_bytes
    tpc,           \* "idle", "called", "returned"
    truncated_log  \* the string returned

truncVars == <<log_content, max_bytes, tpc, truncated_log>>

VARIABLES
    \* ---- one Paper, its versions and files, create_paper_version requests ----
    paperDeleted,  \* papers.deleted_at of the paper is set
    versions,      \* the paper_versions rows of the paper: [version, by, deleted]
    pdfFiles,      \* pdfFiles[n]: the upload stored at <aid>/v<n>/file.pdf
    cpc,           \* cpc[c]: position or outcome of create_paper_version call c
    new_version,   \* new_version[c]: local variable new_version of call c
    claimRows,     \* the versions a Claim row is stored for
    scoreRows      \* the versions a QualityScore row is stored for

paperVars == <<paperDeleted, versions, pdfFiles, cpc, new_version, claimRows, scoreRows>>

VARIABLES
    \* ---- tables quality_scores and claim_links ----
    qsRows,        \* the quality_scores rows the store accepted
    qsLast,        \* the last INSERT INTO quality_scores and its outcome
    paperIds,      \* ids of the papers rows that exist
    links,         \* links[l]: ClaimLink row l, [source_paper_id, source_doc_id]
    deleteResult   \* deleteResult[p]: outcome of the last DELETE of paper p

scoreVars == <<qsRows, qsLast>>
linkVars == <<paperIds, links, deleteResult>>

VARIABLES
    \* ---- log_step ----
    lpc,           \* "outside" or "inside" the wrapped block
    lstep,         \* argument step of the current entry
    events,        \* the log records emitted, in order
    exits          \* how the wrapped block of each entry ended

logVars == <<lpc, lstep, events, exits>>

\* The stores of the paper hosting API and the log stream.
storeVars == <<paperVars, scoreVars, linkVars, logVars>>

vars == <<jobVars, execVars, reviewVars, pipeVars, truncVars, storeVars>>

JobInit ==
    /\ jobs = [j \in Jobs |-> [status |-> "absent", error_message |-> NULL]]
    /\ runs = [j \in Jobs |-> <<>>]
    /\ artifacts = [j \in Jobs |-> [t \in ArtifactType |-> 0]]
    /\ queued = [j \in Jobs |-> 0]
    /\ delivered = [j \in Jobs |-> 0]
    /\ apiPc = [j \in Jobs |-> "idle"]
    /\ repoDir = [j \in Jobs |-> FALSE]
    /\ repoFiles = [j \in Jobs |-> NULL]
    /\ image = [j \in Jobs |-> FALSE]
    /\ badgeFile = [j \in Jobs |-> "none"]
    /\ now = 0
    /\ pc = [w \in Workers |-> "idle"]
    /\ jid = [w \in Workers |-> 1]
    /\ loaded = [w \in Workers |-> "expired"]
    /\ pendingArts = [w \in Workers |-> {}]
    /\ repo_path = [w \in Workers |-> FALSE]
    /\ image_tag = [w \in Workers |-> FALSE]
    /\ err = [w \in Workers |-> NoError]
    /\ result = [w \in Workers |-> NoResult]
    /\ stageRuns = [j \in Jobs |-> 0]

\* Variables of the other components, left alone by the job actions.
JobFrame == UNCHANGED <<execVars, reviewVars, pipeVars, truncVars, storeVars>>

\* shields.io status text generate_badge derives from job.status.value.
BadgeText(status) ==
    CASE status = "completed" -> "Reproducible"
      [] status = "failed" -> "Failed"
      [] status = "running" -> "Running"
      [] OTHER -> "Pending"

\* The smallest job id not yet used: ids are fresh (uuid4), order is immaterial.
FreshJob(j) ==
    /\ jobs[j].status = "absent"
    /\ \A i \in Jobs : i < j => jobs[i].status # "absent"

(***************************************************************************)
(* POST /jobs                                                              *)
(***************************************************************************)
\* create_job, lines 27-35: insert the Job as pending and commit.
CreateJob(j) ==
    /\ apiPc[j] = "idle"
    /\ FreshJob(j)
    /\ jobs' = [jobs EXCEPT ![j] = [status |-> "pending", error_message |-> NULL]]
    /\ apiPc' = [apiPc EXCEPT ![j] = "enqueue"]
    /\ UNCHANGED <<runs, artifacts, queued, delivered, repoDir, image, badgeFile,
                   now, pc, jid, loaded, pendingArts, repo_path, image_tag, err,
                   result, stageRuns, repoFiles>>
    /\ JobFrame

\* create_job, lines 48-51 and 62: enqueue_job_task succeeded.
EnqueueOk(j) ==
    /\ apiPc[j] = "enqueue"
    /\ queued' = [queued EXCEPT ![j] = @ + 1]
    /\ delivered' = [delivered EXCEPT ![j] = @ + 1]
    /\ apiPc' = [apiPc EXCEPT ![j] = "done"]
    /\ UNCHANGED <<jobs, runs, artifacts, repoDir, image, badgeFile, now, pc, jid,
                   loaded, pendingArts, repo_path, image_tag, err, result,
                   stageRuns, repoFiles>>
    /\ JobFrame

\* create_job, lines 52-60: enqueue_job_task raised; the job is marked failed.
EnqueueFail(j) ==
    /\ apiPc[j] = "enqueue"
    /\ \E m \in Msgs :
         jobs' = [jobs EXCEPT ![j] =
                    [status |-> "failed",
                     error_message |-> Some(<<"Failed to enqueue job: ", m>>)]]
    /\ apiPc' = [apiPc EXCEPT ![j] = "done"]
    /\ UNCHANGED <<runs, artifacts, queued, delivered, repoDir, image, badgeFile,
                   now, pc, jid, loaded, pendingArts, repo_path, image_tag, err,
                   result, stageRuns, repoFiles>>
    /\ JobFrame

(***************************************************************************)
(* The queue                                                               *)
(***************************************************************************)
\* A work item for a job id that was enqueued before is put on the queue
\* again (a repeated delivery of the same id).
Redeliver(j) ==
    /\ delivered[j] >= 1
    /\ delivered[j] < MaxDeliveries
    /\ queued' = [queued EXCEPT ![j] = @ + 1]
    /\ delivered' = [delivered EXCEPT ![j] = @ + 1]
    /\ UNCHANGED <<jobs, runs, artifacts, apiPc, repoDir, image, badgeFile, now,
                   pc, jid, loaded, pendingArts, repo_path, image_tag, err, result,
                   stageRuns, repoFiles>>
    /\ JobFrame

\* Worker.work(): a free worker takes a work item and calls process_job(job_id);
\* lines 51-54 initialise the session and the locals.
Dequeue(w, j) ==
    /\ pc[w] \in {"idle", "returned"}
    /\ queued[j] > 0
    /\ queued' = [queued EXCEPT ![j] = @ - 1]
    /\ pc' = [pc EXCEPT ![w] = "fetch"]
    /\ jid' = [jid EXCEPT ![w] = j]
    /\ loaded' = [loaded EXCEPT ![w] = "expired"]
    /\ pendingArts' = [pendingArts EXCEPT ![w] = {}]
    /\ repo_path' = [repo_path EXCEPT ![w] = FALSE]
    /\ image_tag' = [image_tag EXCEPT ![w] = FALSE]
    /\ err' = [err EXCEPT ![w] = NoError]
    /\ result' = [result EXCEPT ![w] = NoResult]
    /\ UNCHANGED <<jobs, runs, artifacts, delivered, apiPc, repoDir, image,
                   badgeFile, now, stageRuns, repoFiles>>
    /\ JobFrame

(***************************************************************************)
(* process_job                                                             *)
(***************************************************************************)
\* A raise inside the try block: control goes to the matching except clause.
Raise(w, kind, m) ==
    /\ err' = [err EXCEPT ![w] = [kind |-> kind, msg |-> m]]
    /\ pc' = [pc EXCEPT ![w] = "failed"]

\* lines 62-66: load the Job; return when it does not exist.
Fetch(w) ==
    /\ pc[w] = "fetch"
    /\ IF jobs[jid[w]].status = "absent"
         THEN /\ pc' = [pc EXCEPT ![w] = "finally"]
              /\ UNCHANGED loaded
         ELSE /\ pc' = [pc EXCEPT ![w] = "set_running"]
              /\ loaded' = [loaded EXCEPT ![w] = jobs[jid[w]].status]
    /\ UNCHANGED <<jobs, runs, artifacts, queued, delivered, apiPc, repoDir, image,
                   badgeFile, now, jid, pendingArts, repo_path, image_tag, err,
                   result, stageRuns, repoFiles>>
    /\ JobFrame

\* lines 68-72: job.status = RUNNING; commit. The UPDATE carries the status
\* column when the assignment changed the loaded value.
SetRunning(w) ==
    /\ pc[w] = "set_running"
    /\ jobs' = IF loaded[w] # "running"
                 THEN [jobs EXCEPT ![jid[w]].status = "running"]
                 ELSE jobs
    /\ loaded' = [loaded EXCEPT ![w] = "expired"]
    /\ pc' = [pc EXCEPT ![w] = "clone"]
    /\ UNCHANGED <<runs, artifacts, queued, delivered, apiPc, repoDir, image,
                   badgeFile, now, jid, pendingArts, repo_path, image_tag, err,
                   result, stageRuns, repoFiles>>
    /\ JobFrame

\* The environment files detect_environment looks for, in the order it does.
EnvFiles == {"requirements.txt", "environment.yml", "pyproject.toml", "Pipfile"}

\* What a cloned tree can hold of them.
RepoContents ==
    {{}, {"requirements.txt"}, {"pyproject.toml", "Pipfile"}}

\* str(e) of the NoEnvironmentDetectedError of env_detector.py lines 146-149.
NoEnvFilesMsg == "No environment files detected. Supported: ..."

\* lines 80-85, clone_repo: the tree is copied or cloned and its path returned;
\* or RepoCloneError is raised before anything is written; or the copy raises
\* part-way (shutil.copytree collects errors and raises shutil.Error at the
\* end), leaving the tree on disk.
Clone(w) ==
    /\ pc[w] = "clone"
    /\ loaded' = [loaded EXCEPT ![w] = jobs[jid[w]].status]
    /\ stageRuns' = [stageRuns EXCEPT ![jid[w]] = @ + 1]
    /\ \/ /\ repoDir' = [repoDir EXCEPT ![jid[w]] = TRUE]
          /\ \E files \in RepoContents :
               repoFiles' = [repoFiles EXCEPT ![jid[w]] = Some(files)]
          /\ repo_path' = [repo_path EXCEPT ![w] = TRUE]
          /\ pc' = [pc EXCEPT ![w] = "detect"]
          /\ UNCHANGED err
       \/ /\ \E m \in Msgs : Raise(w, "RepoCloneError", m)
          /\ UNCHANGED <<repoDir, repoFiles, repo_path>>
       \/ /\ repoDir' = [repoDir EXCEPT ![jid[w]] = TRUE]
          /\ \E m \in Msgs : Raise(w, "Unexpected", m)
          /\ UNCHANGED <<repoFiles, repo_path>>
    /\ UNCHANGED <<jobs, runs, artifacts, queued, delivered, apiPc, image,
                   badgeFile, now, jid, pendingArts, image_tag, result>>
    /\ JobFrame

\* EnvType that takes a tree without environment files for a pip project.
EnvType_DefaultPip(files) ==
    IF "environment.yml" \in files /\ "requirements.txt" \notin files THEN "conda"
    ELSE IF "pyproject.toml" \in files /\ "requirements.txt" \notin files THEN "poetry"
    ELSE IF "Pipfile" \in files /\ "requirements.txt" \notin files THEN "pipenv"
    ELSE "pip"

\* env_type after the four checks of detect_environment, lines 102-144: the
\* first file present decides; "None" when none is.
EnvType(files) ==
    IF "requirements.txt" \in files THEN "pip"
    ELSE IF "environment.yml" \in files THEN "conda"
    ELSE IF "pyproject.toml" \in files THEN "poetry"
    ELSE IF "Pipfile" \in files THEN "pipenv"
    ELSE "None"

\* lines 87-90, detect_environment: NoEnvironmentDetectedError when the tree has
\* none of the four files or the parser of environment.yml, pyproject.toml or
\* Pipfile fails; else store detected_environment and commit.
Detect(w) ==
    /\ pc[w] = "detect"
    /\ stageRuns' = [stageRuns EXCEPT ![jid[w]] = @ + 1]
    /\ LET env_type == EnvType(repoFiles[jid[w]][1])
       IN  IF env_type = "None"
             THEN /\ Raise(w, "NoEnvironmentDetectedError", NoEnvFilesMsg)
                  /\ UNCHANGED loaded
             ELSE \/ /\ loaded' = [loaded EXCEPT ![w] = "expired"]
                     /\ pc' = [pc EXCEPT ![w] = "build"]
                     /\ UNCHANGED err
                  \/ /\ env_type \in {"conda", "poetry", "pipenv"}
                     /\ \E m \in Msgs : Raise(w, "NoEnvironmentDetectedError", m)
                     /\ UNCHANGED loaded
    /\ UNCHANGED <<jobs, runs, artifacts, queued, delivered, apiPc, repoDir, image,
                   badgeFile, now, jid, pendingArts, repo_path, image_tag, result,
                   repoFiles>>
    /\ JobFrame

\* lines 92-97, build_image: the image is built and its tag returned, or
\* DockerBuildError.
Build(w) ==
    /\ pc[w] = "build"
    /\ stageRuns' = [stageRuns EXCEPT ![jid[w]] = @ + 1]
    /\ \/ /\ image' = [image EXCEPT ![jid[w]] = TRUE]
          /\ image_tag' = [image_tag EXCEPT ![w] = TRUE]
          /\ pc' = [pc EXCEPT ![w] = "execute"]
          /\ UNCHANGED err
       \/ /\ \E m \in Msgs : Raise(w, "DockerBuildError", m)
          /\ UNCHANGED <<image, image_tag>>
    /\ UNCHANGED <<jobs, runs, artifacts, queued, delivered, apiPc, repoDir,
                   badgeFile, now, jid, loaded, pendingArts, repo_path, result,
                   repoFiles>>
    /\ JobFrame

\* lines 99-110, execute_command: the container ran for d ticks and the result
\* carries its exit code, the measured duration and the launch time; or the
\* wait timed out after d ticks; or the executor raised ExecutionError.
Execute(w) ==
    /\ pc[w] = "execute"
    /\ loaded' = [loaded EXCEPT ![w] = jobs[jid[w]].status]
    /\ stageRuns' = [stageRuns EXCEPT ![jid[w]] = @ + 1]
    /\ \/ /\ \E d \in 1..MaxRunTicks, code \in {0, 1} :
               /\ result' = [result EXCEPT ![w] =
                               [exit_code |-> Some(code),
                                duration_seconds |-> Some(d),
                                started_at |-> Some(now)]]
               /\ now' = now + d
          /\ pc' = [pc EXCEPT ![w] = "create_run"]
          /\ UNCHANGED err
       \/ /\ \E d \in 1..MaxRunTicks : now' = now + d
          /\ \E m \in Msgs : Raise(w, "ExecutionTimeoutError", m)
          /\ UNCHANGED result
       \/ /\ \E m \in Msgs : Raise(w, "ExecutionError", m)
          /\ UNCHANGED <<result, now>>
    /\ UNCHANGED <<jobs, runs, artifacts, queued, delivered, apiPc, repoDir, image,
                   badgeFile, jid, pendingArts, repo_path, image_tag, repoFiles>>
    /\ JobFrame

\* NewRun with the duration derived from the row's own two timestamps.
NewRun_DurationFromRow(w) ==
    [exit_code |-> result[w].exit_code,
     started_at |-> Some(now),
     completed_at |-> Some(now),
     duration_seconds |-> Some(now - now)]

\* The Run object of lines 113-122.
NewRun(w) ==
    [exit_code |-> result[w].exit_code,
     started_at |-> Some(now),
     completed_at |-> Some(now),
     duration_seconds |-> result[w].duration_seconds]

\* lines 112-124: add the Run and commit. runs.job_id is unique: a second row
\* for the job makes the commit raise IntegrityError, which rolls back.
CreateRun(w) ==
    /\ pc[w] = "create_run"
    /\ loaded' = [loaded EXCEPT ![w] = "expired"]
    /\ IF Len(runs[jid[w]]) = 0
         THEN /\ runs' = [runs EXCEPT ![jid[w]] = Append(@, NewRun(w))]
              /\ pc' = [pc EXCEPT ![w] = "artifacts"]
              /\ UNCHANGED err
         ELSE /\ \E m \in Msgs : Raise(w, "Unexpected", m)
              /\ UNCHANGED runs
    /\ UNCHANGED <<jobs, artifacts, queued, delivered, apiPc, repoDir, image,
                   badgeFile, now, jid, pendingArts, repo_path, image_tag, result,
                   stageRuns, repoFiles>>
    /\ JobFrame

\* Adding the rows of a set of Artifact objects to the committed rows of job j.
FlushArtifacts(rows, j, types) ==
    [rows EXCEPT ![j] = [t \in ArtifactType |-> IF t \in types THEN @[t] + 1 ELSE @[t]]]

\* GenerateArtifacts without the commit of line 176: the three Artifacts stay
\* pending and reach the store with the next commit.
GenerateArtifacts_NoCommit(w) ==
    /\ pc[w] = "artifacts"
    /\ badgeFile' = [badgeFile EXCEPT ![jid[w]] = BadgeText(jobs[jid[w]].status)]
    /\ pendingArts' = [pendingArts EXCEPT ![w] = ArtifactType]
    /\ loaded' = [loaded EXCEPT ![w] = jobs[jid[w]].status]
    /\ pc' = [pc EXCEPT ![w] = "set_completed"]
    /\ UNCHANGED <<jobs, runs, artifacts, queued, delivered, apiPc, repoDir, image,
                   now, jid, repo_path, image_tag, err, result, stageRuns,
                   repoFiles>>
    /\ JobFrame

\* lines 126-176: generate report, notebook and badge, adding one Artifact to
\* the session after each, then commit. A generator that raises leaves the
\* Artifacts added so far pending in the session.
GenerateArtifacts(w) ==
    /\ pc[w] = "artifacts"
    /\ \/ /\ badgeFile' = [badgeFile EXCEPT ![jid[w]] = BadgeText(jobs[jid[w]].status)]
          /\ artifacts' = FlushArtifacts(artifacts, jid[w], ArtifactType)
          /\ pendingArts' = [pendingArts EXCEPT ![w] = {}]
          /\ loaded' = [loaded EXCEPT ![w] = "expired"]
          /\ pc' = [pc EXCEPT ![w] = "set_completed"]
          /\ UNCHANGED err
       \/ /\ \E done \in {{}, {"report"}, {"report", "notebook"}} :
               pendingArts' = [pendingArts EXCEPT ![w] = done]
          /\ loaded' = [loaded EXCEPT ![w] = jobs[jid[w]].status]
          /\ \E m \in Msgs : Raise(w, "Unexpected", m)
          /\ UNCHANGED <<artifacts, badgeFile>>
    /\ UNCHANGED <<jobs, runs, queued, delivered, apiPc, repoDir, image, now, jid,
                   repo_path, image_tag, result, stageRuns, repoFiles>>
    /\ JobFrame

\* lines 178-182: job.status = COMPLETED on the expired object; commit (which
\* flushes whatever is pending in the session).
SetCompleted(w) ==
    /\ pc[w] = "set_completed"
    /\ jobs' = [jobs EXCEPT ![jid[w]].status = "completed"]
    /\ artifacts' = FlushArtifacts(artifacts, jid[w], pendingArts[w])
    /\ pendingArts' = [pendingArts EXCEPT ![w] = {}]
    /\ loaded' = [loaded EXCEPT ![w] = "expired"]
    /\ pc' = [pc EXCEPT ![w] = "cleanup"]
    /\ UNCHANGED <<runs, queued, delivered, apiPc, repoDir, image, badgeFile, now,
                   jid, repo_path, image_tag, err, result, stageRuns, repoFiles>>
    /\ JobFrame

\* cleanup_repo and cleanup_image for the locals that are set.
CleanupLocals(w) ==
    /\ repoDir' = IF repo_path[w] THEN [repoDir EXCEPT ![jid[w]] = FALSE] ELSE repoDir
    /\ image' = IF image_tag[w] THEN [image EXCEPT ![jid[w]] = FALSE] ELSE image

\* lines 191-195: cleanup on the success path.
Cleanup(w) ==
    /\ pc[w] = "cleanup"
    /\ CleanupLocals(w)
    /\ pc' = [pc EXCEPT ![w] = "finally"]
    /\ UNCHANGED <<jobs, runs, artifacts, queued, delivered, apiPc, badgeFile, now,
                   jid, loaded, pendingArts, repo_path, image_tag, err, result,
                   stageRuns, repoFiles>>
    /\ JobFrame

\* HandleFailure that gives the job back to the queue instead of failing it.
HandleFailure_Retry(w) ==
    /\ pc[w] = "failed"
    /\ queued' = [queued EXCEPT ![jid[w]] = @ + 1]
    /\ pc' = [pc EXCEPT ![w] = "finally"]
    /\ UNCHANGED <<jobs, runs, artifacts, delivered, apiPc, repoDir, image,
                   badgeFile, now, jid, loaded, pendingArts, repo_path, image_tag,
                   err, result, stageRuns, repoFiles>>
    /\ JobFrame

\* lines 205-235 and _handle_job_failure, lines 254-276: the except clause
\* builds the message; job.status is read (reloading an expired object), set
\* to FAILED with the message, and the session is committed, which flushes
\* whatever is pending in it.
HandleFailure(w) ==
    /\ pc[w] = "failed"
    /\ LET j == jid[w]
           previous_status == IF loaded[w] = "expired" THEN jobs[j].status ELSE loaded[w]
           error_message == Some(<<ErrorPrefix(err[w].kind), err[w].msg>>)
       IN  /\ jobs' = [jobs EXCEPT ![j] =
                         [status |-> IF previous_status # "failed" THEN "failed" ELSE @.status,
                          error_message |-> error_message]]
           /\ artifacts' = FlushArtifacts(artifacts, j, pendingArts[w])
    /\ pendingArts' = [pendingArts EXCEPT ![w] = {}]
    /\ loaded' = [loaded EXCEPT ![w] = "expired"]
    /\ pc' = [pc EXCEPT ![w] = "finally"]
    /\ UNCHANGED <<runs, queued, delivered, apiPc, repoDir, image, badgeFile, now,
                   jid, repo_path, image_tag, err, result, stageRuns, repoFiles>>
    /\ JobFrame

\* _handle_job_failure, lines 259-276, when its db.commit() raises (the
\* database is unreachable, ...): the except clause logs and rolls back, so
\* neither the status nor the pending rows reach the store; process_job goes
\* on to its finally block.
HandleFailure_CommitRaises(w) ==
    /\ pc[w] = "failed"
    /\ pendingArts' = [pendingArts EXCEPT ![w] = {}]
    /\ loaded' = [loaded EXCEPT ![w] = "expired"]
    /\ pc' = [pc EXCEPT ![w] = "finally"]
    /\ UNCHANGED <<jobs, runs, artifacts, queued, delivered, apiPc, repoDir, image,
                   badgeFile, now, jid, repo_path, image_tag, err, result,
                   stageRuns, repoFiles>>
    /\ JobFrame

\* lines 237-251: the finally block; process_job returns.
Finally(w) ==
    /\ pc[w] = "finally"
    /\ CleanupLocals(w)
    /\ pc' = [pc EXCEPT ![w] = "returned"]
    /\ UNCHANGED <<jobs, runs, artifacts, queued, delivered, apiPc, badgeFile, now,
                   jid, loaded, pendingArts, repo_path, image_tag, err, result,
                   stageRuns, repoFiles>>
    /\ JobFrame

(***************************************************************************)
(* The sandbox executor: execute_command                                   *)
(***************************************************************************)
\* Length of the timeout execute_command is called with, in clock ticks.
TimeoutTicks == 3

\* container.stop(timeout=5)
StopGraceSeconds == 5

\* Strings the preflight inspects are sequences of characters.
root == <<"r", "o", "o", "t">>
arandu_user == <<"a", "r", "a", "n", "d", "u", "-", "u", "s", "e", "r">>

\* str.lower() on one character.
LowerChar(c) ==
    CASE c = "R" -> "r"
      [] c = "O" -> "o"
      [] c = "T" -> "t"
      [] c = "G" -> "g"
      [] OTHER -> c

\* str.lower()
Lower(s) == [i \in 1..Len(s) |-> LowerChar(s[i])]

\* str.strip(): leading and trailing whitespace removed.
RECURSIVE LStrip(_)
LStrip(s) == IF s # <<>> /\ Head(s) = " " THEN LStrip(Tail(s)) ELSE s

RECURSIVE RStrip(_)
RStrip(s) ==
    IF s # <<>> /\ s[Len(s)] = " " THEN RStrip(SubSeq(s, 1, Len(s) - 1)) ELSE s

Strip(s) == RStrip(LStrip(s))

\* `x or ""` for an optional string x.
OrEmpty(x) == IF x = NULL THEN <<>> ELSE x[1]

\* Values the docker_* settings are drawn from; docker_cpu_limit in tenths
\* of a core.
DockerUsers ==
    {NULL, Some(<<>>), Some(root), Some(<<"R", "o", "o", "t">>),
     Some(<<" ", "r", "o", "o", "t", " ">>), Some(<<"0">>), Some(arandu_user)}
DockerUids == {NULL, Some(0), Some(1000)}
CpuLimits == {-10, 0, 5, 20}
MemoryLimits == {NULL, Some(<<>>), Some(<<" ">>), Some(<<"4", "g">>), Some(<<"g">>)}
NetworkModes == {"none", "bridge", "host"}

SettingsValues ==
    [docker_user : DockerUsers, docker_user_uid : DockerUids,
     docker_cpu_limit : CpuLimits, docker_memory_limit : MemoryLimits,
     docker_network_mode : NetworkModes]

\* The defaults of class Settings.
DefaultSettings ==
    [docker_user |-> Some(arandu_user), docker_user_uid |-> Some(1000),
     docker_cpu_limit |-> 20, docker_memory_limit |-> Some(<<"4", "g">>),
     docker_network_mode |-> "none"]

NoExecResult == [exit_code |-> NULL, duration_seconds |-> NULL, started_at |-> NULL]

ExecIdle ==
    /\ epc = "idle"
    /\ eerr = [kind |-> "none", msg |-> <<>>]
    /\ runCalls = 0
    /\ container = "none"
    /\ etime = 0
    /\ start_time = 0
    /\ waitOutcome = "none"
    /\ stopArgs = <<>>
    /\ eresult = NoExecResult

\* Variables of the other components, left alone by the executor.
ExecFrame == UNCHANGED <<jobVars, reviewVars, pipeVars, truncVars, storeVars>>

\* Lines 88-104 without the test of docker_user_uid.
SecurityViolation_NoUidTest(s) ==
    LET docker_user_str == Lower(Strip(OrEmpty(s.docker_user)))
    IN  IF docker_user_str = <<>> \/ docker_user_str = root
           \/ docker_user_str = <<"0">>
        THEN <<"Security violation: containers must run as non-root user">>
        ELSE IF s.docker_cpu_limit <= 0
        THEN <<"Security violation: CPU limit must be greater than 0">>
        ELSE IF s.docker_memory_limit = NULL \/ s.docker_memory_limit[1] = <<>>
                \/ Strip(s.docker_memory_limit[1]) = <<>>
        THEN <<"Security violation: memory limit must be set">>
        ELSE IF s.docker_network_mode \notin {"none", "bridge"}
        THEN <<"Security violation: invalid network mode", s.docker_network_mode>>
        ELSE <<>>

\* Lines 88-104: the message of the ExecutionError the preflight raises, or
\* <<>> when every check passes.
SecurityViolation(s) ==
    LET docker_user_str == Lower(Strip(OrEmpty(s.docker_user)))
        docker_user_uid == s.docker_user_uid
    IN  IF docker_user_str = <<>> \/ docker_user_str = root
           \/ docker_user_str = <<"0">>
           \/ (docker_user_uid # NULL /\ docker_user_uid[1] = 0)
        THEN <<"Security violation: containers must run as non-root user">>
        ELSE IF s.docker_cpu_limit <= 0
        THEN <<"Security violation: CPU limit must be greater than 0">>
        ELSE IF s.docker_memory_limit = NULL \/ s.docker_memory_limit[1] = <<>>
                \/ Strip(s.docker_memory_limit[1]) = <<>>
        THEN <<"Security violation: memory limit must be set">>
        ELSE IF s.docker_network_mode \notin {"none", "bridge"}
        THEN <<"Security violation: invalid network mode", s.docker_network_mode>>
        ELSE <<>>

Digits == {"0", "1", "2", "3", "4", "5", "6", "7", "8", "9"}

\* float(x) / int(x) accept the text: here, a non-empty run of digits.
IsNumber(s) == s # <<>> /\ \A i \in 1..Len(s) : s[i] \in Digits

\* _parse_memory_limit returns (TRUE) or raises ValueError (FALSE).
ParseMemoryLimitOk(memory_str) ==
    LET m == Strip(Lower(memory_str))
    IN  IF m # <<>> /\ m[Len(m)] \in {"g", "m", "k"}
        THEN IsNumber(SubSeq(m, 1, Len(m) - 1))
        ELSE IsNumber(m)

ERaise(kind, msg) ==
    /\ epc' = "raised"
    /\ eerr' = [kind |-> kind, msg |-> msg]

\* Lines 63-75: entry; start_time and started_at are taken.
ExecEnter ==
    /\ epc = "idle"
    /\ epc' = "from_env"
    /\ start_time' = etime
    /\ UNCHANGED <<settings, eerr, runCalls, container, etime, waitOutcome,
                   stopArgs, eresult>>
    /\ ExecFrame

\* Line 79: docker.from_env(); a DockerException becomes ExecutionError (221).
FromEnv ==
    /\ epc = "from_env"
    /\ \/ /\ epc' = "preflight"
          /\ UNCHANGED eerr
       \/ ERaise("ExecutionError", <<"Docker error">>)
    /\ UNCHANGED <<settings, runCalls, container, etime, start_time, waitOutcome,
                   stopArgs, eresult>>
    /\ ExecFrame

\* Lines 87-104: the security preconditions.
Preflight ==
    /\ epc = "preflight"
    /\ IF SecurityViolation(settings) # <<>>
       THEN ERaise("ExecutionError", SecurityViolation(settings))
       ELSE epc' = "prepare" /\ UNCHANGED eerr
    /\ UNCHANGED <<settings, runCalls, container, etime, start_time, waitOutcome,
                   stopArgs, eresult>>
    /\ ExecFrame

\* Lines 106-141: cpu_quota, memory_bytes, run_kwargs; a ValueError of
\* _parse_memory_limit becomes ExecutionError (225-228).
Prepare ==
    /\ epc = "prepare"
    /\ IF ParseMemoryLimitOk(settings.docker_memory_limit[1])
       THEN epc' = "run" /\ UNCHANGED eerr
       ELSE ERaise("ExecutionError", <<"Unexpected error during execution">>)
    /\ UNCHANGED <<settings, runCalls, container, etime, start_time, waitOutcome,
                   stopArgs, eresult>>
    /\ ExecFrame

\* Line 143: client.containers.run(**run_kwargs) creates and starts the
\* container; when it raises, the container was not created or was created
\* and failed to start.
Launch ==
    /\ epc = "run"
    /\ runCalls' = runCalls + 1
    /\ \/ /\ container' = "running"
          /\ epc' = "wait"
          /\ UNCHANGED eerr
       \/ /\ container' \in {"none", "created"}
          /\ ERaise("ExecutionError", <<"Docker error">>)
    /\ UNCHANGED <<settings, etime, start_time, waitOutcome, stopArgs, eresult>>
    /\ ExecFrame

\* Lines 146-156: container.wait(timeout=timeout_seconds) returns the status
\* code, or raises at the timeout, or raises earlier (connection lost, ...).
Wait ==
    /\ epc = "wait"
    /\ \/ \E d \in 1..(TimeoutTicks - 1), code \in {0, 1} :
            /\ etime' = etime + d
            /\ container' = "exited"
            /\ waitOutcome' = "exit"
            /\ eresult' = [eresult EXCEPT !.exit_code = Some(code)]
            /\ epc' = "logs"
       \/ /\ etime' = etime + TimeoutTicks
          /\ waitOutcome' = "timeout"
          /\ epc' = "stop"
          /\ UNCHANGED <<container, eresult>>
       \/ \E d \in 1..(TimeoutTicks - 1) :
            /\ etime' = etime + d
            /\ container' \in {"running", "exited"}
            /\ waitOutcome' = "error"
            /\ epc' = "stop"
            /\ UNCHANGED eresult
    /\ UNCHANGED <<settings, eerr, runCalls, start_time, stopArgs>>
    /\ ExecFrame

\* StopContainer with `elapsed > timeout_seconds` as the test of line 164.
StopContainer_StrictElapsed ==
    /\ epc = "stop"
    /\ stopArgs' = Append(stopArgs, StopGraceSeconds)
    /\ \E g \in {0, 1} :
         /\ etime' = etime + g
         /\ container' \in {container, IF container = "running" THEN "stopped" ELSE container}
         /\ IF etime' - start_time > TimeoutTicks
            THEN ERaise("ExecutionTimeoutError", <<"Execution exceeded timeout">>)
            ELSE ERaise("ExecutionError", <<"Container execution failed">>)
    /\ UNCHANGED <<settings, runCalls, start_time, waitOutcome, eresult>>
    /\ ExecFrame

\* Lines 157-168: container.stop(timeout=5), its failure ignored; then the
\* elapsed time decides between ExecutionTimeoutError and ExecutionError.
StopContainer ==
    /\ epc = "stop"
    /\ stopArgs' = Append(stopArgs, StopGraceSeconds)
    /\ \E g \in {0, 1} :
         /\ etime' = etime + g
         /\ container' \in {container, IF container = "running" THEN "stopped" ELSE container}
         /\ IF etime' - start_time >= TimeoutTicks
            THEN ERaise("ExecutionTimeoutError", <<"Execution exceeded timeout">>)
            ELSE ERaise("ExecutionError", <<"Container execution failed">>)
    /\ UNCHANGED <<settings, runCalls, start_time, waitOutcome, eresult>>
    /\ ExecFrame

\* Lines 170-188: read and store the logs, truncate the previews, take the
\* duration; a failure of container.logs becomes ExecutionError (221-228).
Logs ==
    /\ epc = "logs"
    /\ \/ /\ epc' = "remove"
          /\ eresult' = [eresult EXCEPT !.duration_seconds = Some(etime - start_time),
                                        !.started_at = Some(start_time)]
          /\ UNCHANGED eerr
       \/ /\ ERaise("ExecutionError", <<"Docker error">>)
          /\ UNCHANGED eresult
    /\ UNCHANGED <<settings, runCalls, container, etime, start_time, waitOutcome,
                   stopArgs>>
    /\ ExecFrame

\* Lines 190-211: container.remove(), its failure only logged; return.
Remove ==
    /\ epc = "remove"
    /\ container' \in {"removed", container}
    /\ epc' = "returned"
    /\ UNCHANGED <<settings, eerr, runCalls, etime, start_time, waitOutcome,
                   stopArgs, eresult>>
    /\ ExecFrame

(***************************************************************************)
(* POST /reviews and the review worker: process_review                     *)
(***************************************************************************)
\* ReviewStatus
ReviewStatus == {"pending", "processing", "completed", "failed"}

\* The smallest review id not yet used.
FreshReview(r) ==
    /\ reviews[r].status = "absent"
    /\ \A i \in Reviews : i < r => reviews[i].status # "absent"

ReviewInit ==
    /\ reviews = [r \in Reviews |-> [status |-> "absent", error_message |-> NULL]]
    /\ rQueued = [r \in Reviews |-> 0]
    /\ rApiPc = [r \in Reviews |-> "idle"]
    /\ rpc = [w \in Workers |-> "idle"]
    /\ rid = [w \in Workers |-> 1]
    /\ final_state = [w \in Workers |-> "none"]
    /\ rerr = [w \in Workers |-> "none"]

\* Variables of the other components, left alone by the review actions.
ReviewFrame == UNCHANGED <<jobVars, execVars, pipeVars, truncVars, storeVars>>

\* create_review, lines 69-79: insert the Review as pending and commit.
CreateReview(r) ==
    /\ FreshReview(r)
    /\ rApiPc[r] = "idle"
    /\ reviews' = [reviews EXCEPT ![r].status = "pending"]
    /\ rApiPc' = [rApiPc EXCEPT ![r] = "inserted"]
    /\ UNCHANGED <<rQueued, rpc, rid, final_state, rerr>>
    /\ ReviewFrame

\* create_review, lines 82-83: enqueue_review_task succeeds.
ReviewEnqueueOk(r) ==
    /\ rApiPc[r] = "inserted"
    /\ rQueued' = [rQueued EXCEPT ![r] = @ + 1]
    /\ rApiPc' = [rApiPc EXCEPT ![r] = "done"]
    /\ UNCHANGED <<reviews, rpc, rid, final_state, rerr>>
    /\ ReviewFrame

\* create_review, lines 84-88: enqueue_review_task raises; the review is
\* committed as failed.
ReviewEnqueueFail(r) ==
    /\ rApiPc[r] = "inserted"
    /\ \E m \in Msgs :
         reviews' = [reviews EXCEPT
                       ![r] = [status |-> "failed",
                               error_message |-> Some(<<"Failed to enqueue task: ", m>>)]]
    /\ rApiPc' = [rApiPc EXCEPT ![r] = "done"]
    /\ UNCHANGED <<rQueued, rpc, rid, final_state, rerr>>
    /\ ReviewFrame

\* A worker of queue "reviews" takes a work item and enters process_review.
ReviewDequeue(w, r) ==
    /\ rpc[w] \in {"idle", "returned"}
    /\ rQueued[r] > 0
    /\ rQueued' = [rQueued EXCEPT ![r] = @ - 1]
    /\ rid' = [rid EXCEPT ![w] = r]
    /\ rpc' = [rpc EXCEPT ![w] = "fetch"]
    /\ final_state' = [final_state EXCEPT ![w] = "none"]
    /\ rerr' = [rerr EXCEPT ![w] = "none"]
    /\ UNCHANGED <<reviews, rApiPc>>
    /\ ReviewFrame

\* Lines 34-45: load the review; return when there is none.
ReviewFetch(w) ==
    /\ rpc[w] = "fetch"
    /\ rpc' = [rpc EXCEPT ![w] = IF reviews[rid[w]].status = "absent"
                                 THEN "returned" ELSE "set_processing"]
    /\ UNCHANGED <<reviews, rQueued, rApiPc, rid, final_state, rerr>>
    /\ ReviewFrame

\* Lines 47-49: review.status = PROCESSING; db.commit().
SetProcessing(w) ==
    /\ rpc[w] = "set_processing"
    /\ reviews' = [reviews EXCEPT ![rid[w]].status = "processing"]
    /\ rpc' = [rpc EXCEPT ![w] = "create_pipeline"]
    /\ UNCHANGED <<rQueued, rApiPc, rid, final_state, rerr>>
    /\ ReviewFrame

\* Lines 54-56: create_review_pipeline() returns the compiled graph, or None
\* when LangGraph is not installed.
CreatePipeline(w) ==
    /\ rpc[w] = "create_pipeline"
    /\ \E available \in BOOLEAN :
         rpc' = [rpc EXCEPT ![w] = IF available THEN "invoke" ELSE "direct_ingest"]
    /\ UNCHANGED <<reviews, rQueued, rApiPc, rid, final_state, rerr>>
    /\ ReviewFrame

\* Lines 59-80: pipeline.invoke(initial_state) returns the final state, whose
\* status report_generation_node set to completed or failed, or raises.
Invoke(w) ==
    /\ rpc[w] = "invoke"
    /\ \/ \E s \in {"completed", "failed"} :
            /\ final_state' = [final_state EXCEPT ![w] = s]
            /\ rpc' = [rpc EXCEPT ![w] = "commit_final"]
            /\ UNCHANGED rerr
       \/ \E m \in Msgs :
            /\ rerr' = [rerr EXCEPT ![w] = m]
            /\ rpc' = [rpc EXCEPT ![w] = "except"]
            /\ UNCHANGED final_state
    /\ UNCHANGED <<reviews, rQueued, rApiPc, rid>>
    /\ ReviewFrame

\* The status line 92 derives from the final state.
FinalStatus(s) == IF s = "completed" THEN "completed" ELSE "failed"

\* Lines 82-104: copy the final state into the review and commit it.
CommitFinal(w) ==
    /\ rpc[w] = "commit_final"
    /\ reviews' = [reviews EXCEPT ![rid[w]].status = FinalStatus(final_state[w])]
    /\ rpc' = [rpc EXCEPT ![w] = "step2"]
    /\ UNCHANGED <<rQueued, rApiPc, rid, final_state, rerr>>
    /\ ReviewFrame

\* Lines 108-114: without a pipeline, ingest_paper is called; the module
\* does not import that name, so the call raises NameError.
DirectIngest(w) ==
    /\ rpc[w] = "direct_ingest"
    /\ rerr' = [rerr EXCEPT ![w] = "name 'ingest_paper' is not defined"]
    /\ rpc' = [rpc EXCEPT ![w] = "except"]
    /\ UNCHANGED <<reviews, rQueued, rApiPc, rid, final_state>>
    /\ ReviewFrame

\* Lines 135-138: after the if/else, on both paths, extract_claims_by_section
\* is called; the module does not import that name, so the call raises
\* NameError and lines 139-379 are never executed.
Step2(w) ==
    /\ rpc[w] = "step2"
    /\ rerr' = [rerr EXCEPT ![w] = "name 'extract_claims_by_section' is not defined"]
    /\ rpc' = [rpc EXCEPT ![w] = "except"]
    /\ UNCHANGED <<reviews, rQueued, rApiPc, rid, final_state>>
    /\ ReviewFrame

\* Lines 380-384: except Exception: the review is committed as failed with
\* str(e).
ReviewExcept(w) ==
    /\ rpc[w] = "except"
    /\ reviews' = [reviews EXCEPT
                     ![rid[w]] = [status |-> "failed",
                                  error_message |-> Some(<<rerr[w]>>)]]
    /\ rpc' = [rpc EXCEPT ![w] = "finally"]
    /\ UNCHANGED <<rQueued, rApiPc, rid, final_state, rerr>>
    /\ ReviewFrame

\* Lines 395-396: finally: db.close().
ReviewFinally(w) ==
    /\ rpc[w] = "finally"
    /\ rpc' = [rpc EXCEPT ![w] = "returned"]
    /\ UNCHANGED <<reviews, rQueued, rApiPc, rid, final_state, rerr>>
    /\ ReviewFrame

(***************************************************************************)
(* The review pipeline: the LangGraph graph and run_pipeline_direct        *)
(***************************************************************************)
Nodes ==
    {"ingestion", "claim_extraction", "citation_suggestion",
     "checklist_generation", "quality_score", "badge_generation",
     "report_generation"}

\* workflow.set_entry_point / workflow.add_edge, lines 55-66.
EntryPoint == "ingestion"
Edges ==
    {<<"ingestion", "claim_extraction">>,
     <<"claim_extraction", "citation_suggestion">>,
     <<"claim_extraction", "checklist_generation">>,
     <<"citation_suggestion", "quality_score">>,
     <<"checklist_generation", "quality_score">>,
     <<"quality_score", "badge_generation">>,
     <<"badge_generation", "report_generation">>}

\* run_pipeline_direct, lines 95-101.
DirectOrder ==
    <<"ingestion", "claim_extraction", "citation_suggestion",
      "checklist_generation", "quality_score", "badge_generation",
      "report_generation">>

\* Values of the state dictionary, abstracted: None, "" (empty text), "[]"
\* (empty list), "{}" (empty dict) and names for the non-empty values.
None == "None"

\* state.get(k)
Get(s, k) == IF k \in DOMAIN s THEN s[k] ELSE None

\* bool(v)
Truthy(v) == v \notin {None, "", "[]", "{}"}

\* The state dictionary the pipeline is started with (review_processor.py
\* lines 59-77; the tests pass a paper_text and no url).
InitialState(url, paper_text) ==
    [review_id |-> "r1", url |-> url, doi |-> None, pdf_file_path |-> None,
     repo_url |-> None, paper_meta |-> None, paper_text |-> paper_text,
     claims |-> None, citations |-> None, checklist |-> None,
     quality_score |-> None, badges |-> None, html_report_path |-> None,
     json_summary_path |-> None, status |-> "processing",
     error_message |-> None, errors |-> <<>>]

\* What the environment does to the work a node calls: it succeeds, succeeds
\* with nothing found (claim extraction), or raises.
Outcomes(n) ==
    IF n = "claim_extraction" THEN {"ok", "ok_empty", "raise"} ELSE {"ok", "raise"}

\* The dictionary ingestion_node returns.  On success it assigns paper_meta,
\* paper_text and status to the dictionary it was handed and returns {}.
ingestion_node(s, o) ==
    LET has_source == Truthy(Get(s, "url")) \/ Truthy(Get(s, "doi"))
                         \/ Truthy(Get(s, "pdf_file_path"))
        on_exception ==
            IF Truthy(Get(s, "paper_text"))
            THEN IF ~Truthy(Get(s, "paper_meta"))
                 THEN [paper_meta |-> "Unknown", status |-> "processing"]
                 ELSE [status |-> "processing"]
            ELSE [status |-> "failed", error_message |-> "Ingestion failed",
                  errors |-> <<"ingestion">>]
    IN  IF "review_id" \notin DOMAIN s THEN on_exception
        ELSE IF Truthy(Get(s, "paper_text")) /\ ~has_source
        THEN IF ~Truthy(Get(s, "paper_meta"))
             THEN [paper_meta |-> "Test Paper", status |-> "processing"]
             ELSE [status |-> "processing"]
        ELSE IF o = "ok" /\ has_source THEN <<>>
        ELSE on_exception

\* The dictionary `state` of ingestion_node after the assignments of lines
\* 60-67, made in place on the argument when ingest_paper returned.
ingestion_assigned(s) ==
    [paper_meta |-> "extracted meta", paper_text |-> "extracted text",
     status |-> "processing"] @@ s

claim_extraction_node(s, o) ==
    IF "review_id" \notin DOMAIN s
    THEN [claims |-> "[]", errors |-> <<"claim_extraction">>]
    ELSE IF ~Truthy(Get(s, "paper_text")) THEN [claims |-> "[]"]
    ELSE IF o = "ok" THEN [claims |-> "claims"]
    ELSE IF o = "ok_empty" THEN [claims |-> "[]"]
    ELSE [claims |-> "[]", errors |-> <<"claim_extraction">>]

citation_suggestion_node(s, o) ==
    IF "review_id" \notin DOMAIN s
    THEN [citations |-> "{}", errors |-> <<"citation_suggestion">>]
    ELSE IF ~Truthy(Get(s, "claims")) THEN [citations |-> "{}"]
    ELSE IF o = "ok" THEN [citations |-> "citations"]
    ELSE [citations |-> "{}", errors |-> <<"citation_suggestion">>]

checklist_generation_node(s, o) ==
    IF "review_id" \notin DOMAIN s
    THEN [checklist |-> "failed", errors |-> <<"checklist_generation">>]
    ELSE IF ~Truthy(Get(s, "paper_text")) THEN [checklist |-> "no data"]
    ELSE IF o = "ok" THEN [checklist |-> "checklist"]
    ELSE [checklist |-> "failed", errors |-> <<"checklist_generation">>]

\* state.get("checklist", {}).get(...) raises AttributeError when the key is
\* there and holds None.
quality_score_node(s, o) ==
    IF "review_id" \notin DOMAIN s THEN [errors |-> <<"quality_score">>]
    ELSE IF "checklist" \in DOMAIN s /\ s["checklist"] = None
    THEN [errors |-> <<"quality_score">>]
    ELSE IF o = "ok" THEN [quality_score |-> "score"]
    ELSE [errors |-> <<"quality_score">>]

badge_generation_node(s, o) ==
    IF "review_id" \notin DOMAIN s
    THEN [badges |-> "{}", errors |-> <<"badge_generation">>]
    ELSE IF o = "ok" THEN [badges |-> "badges"]
    ELSE [badges |-> "{}", errors |-> <<"badge_generation">>]

report_generation_node(s, o) ==
    IF "review_id" \notin DOMAIN s \/ o # "ok"
    THEN [status |-> "failed", error_message |-> "Report generation failed",
          errors |-> <<"report_generation">>]
    ELSE [html_report_path |-> "report.html", json_summary_path |-> "review.json",
          status |-> "completed"]

\* The node function registered under name n.
NodeReturn(n, s, o) ==
    CASE n = "ingestion" -> ingestion_node(s, o)
      [] n = "claim_extraction" -> claim_extraction_node(s, o)
      [] n = "citation_suggestion" -> citation_suggestion_node(s, o)
      [] n = "checklist_generation" -> checklist_generation_node(s, o)
      [] n = "quality_score" -> quality_score_node(s, o)
      [] n = "badge_generation" -> badge_generation_node(s, o)
      [] OTHER -> report_generation_node(s, o)

PipelineStart(m, url, paper_text) ==
    /\ pmode = m
    /\ channels = InitialState(url, paper_text)
    /\ ppc = "running"
    /\ active = {EntryPoint}
    /\ started = {}
    /\ writes = <<>>
    /\ dpos = 1
    /\ starts = [n \in Nodes |-> 0]
    /\ finishes = [n \in Nodes |-> 0]
    /\ input0 = channels
    /\ nodeInput = [n \in Nodes |-> <<>>]
    /\ raisedIn = {}
    /\ merged = channels
    /\ ingestCalls = 0

\* No pipeline run in progress.
PipelineIdle ==
    /\ pmode = "langgraph"
    /\ channels = InitialState(None, "")
    /\ ppc = "idle"
    /\ active = {}
    /\ started = {}
    /\ writes = <<>>
    /\ dpos = 1
    /\ starts = [n \in Nodes |-> 0]
    /\ finishes = [n \in Nodes |-> 0]
    /\ input0 = channels
    /\ nodeInput = [n \in Nodes |-> <<>>]
    /\ raisedIn = {}
    /\ merged = channels
    /\ ingestCalls = 0

\* Variables of the other components, left alone by the pipeline.
PipelineFrame == UNCHANGED <<jobVars, execVars, reviewVars, truncVars, storeVars>>

\* Node n, called with dictionary s, reaches its call of ingest_paper (only
\* ingestion_node has one, lines 53-58).
CallsIngestPaper(n, s) ==
    /\ n = "ingestion"
    /\ "review_id" \in DOMAIN s
    /\ ~(Truthy(Get(s, "paper_text"))
          /\ ~(Truthy(Get(s, "url")) \/ Truthy(Get(s, "doi"))
                \/ Truthy(Get(s, "pdf_file_path"))))

\* The try body of node n, called with dictionary s under outcome o, raises:
\* state['review_id'] raises KeyError, the work the node calls raises, or
\* (quality_score) None.get raises AttributeError.
BodyRaises(n, s, o) ==
    \/ "review_id" \notin DOMAIN s
    \/ /\ n = "ingestion"
       /\ CallsIngestPaper(n, s)
       /\ ~(o = "ok" /\ (Truthy(Get(s, "url")) \/ Truthy(Get(s, "doi"))
                          \/ Truthy(Get(s, "pdf_file_path"))))
    \/ n = "claim_extraction" /\ Truthy(Get(s, "paper_text")) /\ o = "raise"
    \/ n = "citation_suggestion" /\ Truthy(Get(s, "claims")) /\ o = "raise"
    \/ n = "checklist_generation" /\ Truthy(Get(s, "paper_text")) /\ o = "raise"
    \/ /\ n = "quality_score"
       /\ \/ ("checklist" \in DOMAIN s /\ s["checklist"] = None)
          \/ o = "raise"
    \/ n \in {"badge_generation", "report_generation"} /\ o # "ok"

\* History of a node's return.
Record(n, s, o) ==
    /\ raisedIn' = IF BodyRaises(n, s, o) THEN raisedIn \cup {n} ELSE raisedIn
    /\ merged' = NodeReturn(n, s, o) @@ merged
    /\ ingestCalls' = IF CallsIngestPaper(n, s) THEN ingestCalls + 1 ELSE ingestCalls

\* A node function is called: by a task of the current superstep of the
\* graph, or by the next statement of run_pipeline_direct.
StartNode(n) ==
    /\ ppc = "running"
    /\ n \in active \ started
    /\ started' = started \cup {n}
    /\ starts' = [starts EXCEPT ![n] = @ + 1]
    /\ nodeInput' = [nodeInput EXCEPT ![n] = channels]
    /\ UNCHANGED <<pmode, channels, ppc, active, writes, dpos, finishes, input0,
                   raisedIn, merged, ingestCalls>>
    /\ PipelineFrame

\* Graph: a task of the superstep returns; what the node returned is kept as
\* the task's writes.  The node was handed a dictionary built from the
\* channels for this task, so its assignments to that dictionary are lost.
TaskFinish(n) ==
    /\ ppc = "running"
    /\ pmode = "langgraph"
    /\ n \in started
    /\ n \notin DOMAIN writes
    /\ \E o \in Outcomes(n) :
         /\ writes' = (n :> NodeReturn(n, channels, o)) @@ writes
         /\ Record(n, channels, o)
    /\ finishes' = [finishes EXCEPT ![n] = @ + 1]
    /\ UNCHANGED <<pmode, channels, ppc, active, started, dpos, starts, input0,
                   nodeInput>>
    /\ PipelineFrame

\* Two tasks of one superstep wrote the same key: every key of ReviewState is
\* a last-value channel, which accepts one value per superstep.
WriteConflict ==
    \E n1, n2 \in DOMAIN writes :
        n1 # n2 /\ DOMAIN writes[n1] \cap DOMAIN writes[n2] # {}

\* The channels after the writes of the superstep are applied.
Merged(ch, ws) ==
    [k \in DOMAIN ch |->
        IF \E n \in DOMAIN ws : k \in DOMAIN ws[n]
        THEN ws[CHOOSE n \in DOMAIN ws : k \in DOMAIN ws[n]][k]
        ELSE ch[k]]

\* Graph: the superstep ends.  The writes are applied, InvalidUpdateError is
\* raised out of invoke on a conflict, and the successors of the nodes that
\* ran form the next superstep; invoke returns when there are none.
ApplyWrites ==
    /\ ppc = "running"
    /\ pmode = "langgraph"
    /\ active # {}
    /\ DOMAIN writes = active
    /\ IF WriteConflict
       THEN /\ ppc' = "raised"
            /\ UNCHANGED <<channels, active>>
       ELSE LET next == {m \in Nodes : \E n \in active : <<n, m>> \in Edges}
            IN  /\ channels' = Merged(channels, writes)
                /\ active' = next
                /\ ppc' = IF next = {} THEN "returned" ELSE "running"
    /\ started' = {}
    /\ writes' = <<>>
    /\ UNCHANGED <<pmode, dpos, starts, finishes, input0, nodeInput, raisedIn,
                   merged, ingestCalls>>
    /\ PipelineFrame

\* run_pipeline_direct: `state = node(state)`: the node returns and what it
\* returned becomes the state handed to the next node; line 103 returns it.
DirectAssign(n) ==
    /\ ppc = "running"
    /\ pmode = "direct"
    /\ n \in started
    /\ \E o \in Outcomes(n) :
         /\ channels' = NodeReturn(n, channels, o)
         /\ Record(n, channels, o)
    /\ finishes' = [finishes EXCEPT ![n] = @ + 1]
    /\ dpos' = dpos + 1
    /\ active' = IF dpos < Len(DirectOrder) THEN {DirectOrder[dpos + 1]} ELSE {}
    /\ ppc' = IF dpos < Len(DirectOrder) THEN "running" ELSE "returned"
    /\ started' = {}
    /\ UNCHANGED <<pmode, writes, starts, input0, nodeInput>>
    /\ PipelineFrame

(***************************************************************************)
(* Log previews: _truncate_log                                             *)
(***************************************************************************)
\* Longest log and largest byte budget of the model.
MaxLogLen == 3
MaxBudget == 4

\* Characters a log is made of: one of one, one of two and one of three bytes
\* in UTF-8.
LogChars == {"a", "é", "€"}

\* c.encode("utf-8"): the bytes of one character, as lead and continuation
\* bytes.
EncodeChar(c) ==
    CASE c = "é" -> <<"lead2", "cont">>
      [] c = "€" -> <<"lead3", "cont", "cont">>
      [] OTHER -> <<"ascii">>

\* s.encode("utf-8")
RECURSIVE Encode(_)
Encode(s) == IF s = <<>> THEN <<>> ELSE EncodeChar(Head(s)) \o Encode(Tail(s))

\* "\n... [truncated]"
TruncationMarker ==
    <<"\n", ".", ".", ".", " ", "[", "t", "r", "u", "n", "c", "a", "t", "e", "d", "]">>

\* Lines 254-257: drop the last character until the encoding fits.
RECURSIVE DropUntilFits(_, _)
DropUntilFits(truncated, max) ==
    IF Len(Encode(truncated)) > max
    THEN DropUntilFits(SubSeq(truncated, 1, Len(truncated) - 1), max)
    ELSE truncated

\* _truncate_log(log_content, max_bytes)
TruncateLogFn(content, max) ==
    IF Len(Encode(content)) <= max
    THEN content
    ELSE DropUntilFits(content, max) \o TruncationMarker

\* The logs of length n.
RECURSIVE LogsOfLen(_)
LogsOfLen(n) ==
    IF n = 0 THEN {<<>>}
    ELSE {Append(s, c) : s \in LogsOfLen(n - 1), c \in LogChars}

LogValues == UNION {LogsOfLen(n) : n \in 0..MaxLogLen}

TruncIdle ==
    /\ log_content = <<>>
    /\ max_bytes = 0
    /\ tpc = "idle"
    /\ truncated_log = <<>>

\* Variables of the other components, left alone by _truncate_log.
TruncFrame == UNCHANGED <<jobVars, execVars, reviewVars, pipeVars, storeVars>>

\* _truncate_log is called with the arguments held in log_content, max_bytes.
TruncateLog ==
    /\ tpc = "called"
    /\ truncated_log' = TruncateLogFn(log_content, max_bytes)
    /\ tpc' = "returned"
    /\ UNCHANGED <<log_content, max_bytes>>
    /\ TruncFrame

(***************************************************************************)
(* Paper hosting: create_paper_version, soft delete and the read handlers  *)
(***************************************************************************)
\* Concurrent create_paper_version requests for the paper.
NumCalls == 2
Calls == 1..NumCalls

\* Version numbers, hence storage paths <aid>/v<n>/file.pdf, a run can touch.
VersionNumbers == 1..(NumCalls + 1)

\* The largest element of a non-empty set of integers.
Max(S) == CHOOSE x \in S : \A y \in S : y <= x

\* After create_paper, lines 103-122: the Paper with its version 1, whose file
\* is upload 0; no request running.
PaperIdle ==
    /\ paperDeleted = FALSE
    /\ versions = {[version |-> 1, by |-> 0, deleted |-> FALSE]}
    /\ pdfFiles = [n \in VersionNumbers |-> IF n = 1 THEN Some(0) ELSE NULL]
    /\ cpc = [c \in Calls |-> "idle"]
    /\ new_version = [c \in Calls |-> 0]
    /\ claimRows = {}
    /\ scoreRows = {}

\* Variables of the other components, left alone by the paper actions.
PaperFrame ==
    UNCHANGED <<jobVars, execVars, reviewVars, pipeVars, truncVars, scoreVars,
                linkVars, logVars>>

\* The PaperVersion rows of the paper that a default query sees
\* (deleted_at IS NULL).
LiveVersions == {r \in versions : ~r.deleted}

\* .order_by(PaperVersion.version.desc()).first() over the live rows.
LatestVersion ==
    IF LiveVersions = {} THEN NULL
    ELSE Some(Max({r.version : r \in LiveVersions}))

\* CpvQuery that allocates two past the latest version.
CpvQuery_SkipsOne(c) ==
    /\ cpc[c] = "idle"
    /\ IF paperDeleted
         THEN /\ cpc' = [cpc EXCEPT ![c] = "http404"]
              /\ UNCHANGED new_version
         ELSE /\ new_version' = [new_version EXCEPT ![c] =
                                   IF LatestVersion # NULL THEN LatestVersion[1] + 2 ELSE 1]
              /\ \/ cpc' = [cpc EXCEPT ![c] = "move"]
                 \/ cpc' = [cpc EXCEPT ![c] = "http400"]
    /\ UNCHANGED <<paperDeleted, versions, pdfFiles, claimRows, scoreRows>>
    /\ PaperFrame

\* create_paper_version, lines 147-177: 404 when the paper is missing or soft
\* deleted; new_version from the latest live version; 400 when neither pdf nor
\* url is given or the upload is not a valid PDF.
CpvQuery(c) ==
    /\ cpc[c] = "idle"
    /\ IF paperDeleted
         THEN /\ cpc' = [cpc EXCEPT ![c] = "http404"]
              /\ UNCHANGED new_version
         ELSE /\ new_version' = [new_version EXCEPT ![c] =
                                   IF LatestVersion # NULL THEN LatestVersion[1] + 1 ELSE 1]
              /\ \/ cpc' = [cpc EXCEPT ![c] = "move"]
                 \/ cpc' = [cpc EXCEPT ![c] = "http400"]
    /\ UNCHANGED <<paperDeleted, versions, pdfFiles, claimRows, scoreRows>>
    /\ PaperFrame

\* lines 179-180 (197-198 for a url): the upload of call c is moved onto
\* <aid>/v<new_version>/file.pdf, replacing a file that is there.
CpvMove(c) ==
    /\ cpc[c] = "move"
    /\ pdfFiles' = [pdfFiles EXCEPT ![new_version[c]] = Some(c)]
    /\ cpc' = [cpc EXCEPT ![c] = "commit"]
    /\ UNCHANGED <<paperDeleted, versions, new_version, claimRows, scoreRows>>
    /\ PaperFrame

\* CpvCommit on a table without uq_paper_versions_aid_version.
CpvCommit_NoUnique(c) ==
    /\ cpc[c] = "commit"
    /\ versions' = versions \cup
                     {[version |-> new_version[c], by |-> c, deleted |-> FALSE]}
    /\ cpc' = [cpc EXCEPT ![c] = "created"]
    /\ UNCHANGED <<paperDeleted, pdfFiles, new_version, claimRows, scoreRows>>
    /\ PaperFrame

\* lines 202-218: insert the PaperVersion and commit. The store rejects the
\* insert when a row with the same (aid, version) exists, soft deleted or not
\* (paper_version.py line 40); the IntegrityError leaves the handler.
CpvCommit(c) ==
    /\ cpc[c] = "commit"
    /\ IF \E r \in versions : r.version = new_version[c]
         THEN /\ cpc' = [cpc EXCEPT ![c] = "integrity_error"]
              /\ UNCHANGED versions
         ELSE /\ versions' = versions \cup
                               {[version |-> new_version[c], by |-> c, deleted |-> FALSE]}
              /\ cpc' = [cpc EXCEPT ![c] = "created"]
    /\ UNCHANGED <<paperDeleted, pdfFiles, new_version, claimRows, scoreRows>>
    /\ PaperFrame

\* Soft delete of a PaperVersion: deleted_at is set, the row stays.
SoftDeleteVersion(v) ==
    /\ \E r \in versions : r.version = v /\ ~r.deleted
    /\ versions' = {IF r.version = v THEN [r EXCEPT !.deleted = TRUE] ELSE r :
                      r \in versions}
    /\ UNCHANGED <<paperDeleted, pdfFiles, cpc, new_version, claimRows, scoreRows>>
    /\ PaperFrame

\* Soft delete of the Paper.
SoftDeletePaper ==
    /\ ~paperDeleted
    /\ paperDeleted' = TRUE
    /\ UNCHANGED <<versions, pdfFiles, cpc, new_version, claimRows, scoreRows>>
    /\ PaperFrame

\* A Claim row is stored for version v (claims.paper_version_id).
AddClaim(v) ==
    /\ \E r \in versions : r.version = v
    /\ v \notin claimRows
    /\ claimRows' = claimRows \cup {v}
    /\ UNCHANGED <<paperDeleted, versions, pdfFiles, cpc, new_version, scoreRows>>
    /\ PaperFrame

\* A QualityScore row of scope version is stored for version v.
AddScore(v) ==
    /\ \E r \in versions : r.version = v
    /\ v \notin scoreRows
    /\ scoreRows' = scoreRows \cup {v}
    /\ UNCHANGED <<paperDeleted, versions, pdfFiles, cpc, new_version, claimRows>>
    /\ PaperFrame

\* get_paper, lines 228-293.
get_paper ==
    IF paperDeleted THEN [status |-> 404]
    ELSE [status |-> 200,
          latest_version |-> LatestVersion,
          claims |-> Cardinality({v \in claimRows :
                                     \E r \in LiveVersions : r.version = v}),
          scores |-> Cardinality({v \in scoreRows :
                                     \E r \in versions : r.version = v}),
          versions |-> Cardinality(LiveVersions)]

\* The version row the viewer and get_paper_claims select, lines 310-326 and
\* 455-471: version v when given (v # 0), else the latest; live rows only.
SelectVersion(v) ==
    IF v # 0
    THEN IF \E r \in LiveVersions : r.version = v THEN Some(v) ELSE NULL
    ELSE LatestVersion

\* get_paper_viewer, lines 303-385: the file at the selected version's
\* pdf_path is served.
get_paper_viewer(v) ==
    IF paperDeleted \/ SelectVersion(v) = NULL \/ pdfFiles[SelectVersion(v)[1]] = NULL
    THEN [status |-> 404]
    ELSE [status |-> 200, version |-> SelectVersion(v)[1],
          content |-> pdfFiles[SelectVersion(v)[1]]]

\* get_paper_claims, lines 448-498.
get_paper_claims(v) ==
    IF paperDeleted \/ SelectVersion(v) = NULL
    THEN [status |-> 404]
    ELSE [status |-> 200, version |-> SelectVersion(v)[1],
          total |-> Cardinality(claimRows \cap {SelectVersion(v)[1]})]

(***************************************************************************)
(* Table constraints: quality_scores and claim_links                       *)
(***************************************************************************)
\* Variables left alone by the inserts and deletes on these two tables.
StoreFrame ==
    UNCHANGED <<jobVars, execVars, reviewVars, pipeVars, truncVars, paperVars,
                logVars>>

\* The rows an INSERT INTO quality_scores can carry: scope is one of the
\* values of QualityScoreScope or one of its member names; each reference is
\* null or set; score is inside or outside 0..100.
ScoreAttempts ==
    [scope : {"paper", "version", "PAPER", "VERSION"},
     paper_id : {NULL, Some(1)},
     paper_version_id : {NULL, Some(1)},
     score : {50, 101}]

\* check_quality_score_scope without `AND paper_version_id IS NULL` and
\* `AND paper_id IS NULL`.
check_quality_score_scope_NoNullTest(r) ==
    \/ r.scope = "paper" /\ r.paper_id # NULL
    \/ r.scope = "version" /\ r.paper_version_id # NULL

\* CheckConstraint check_quality_score_scope, quality_score.py lines 55-59.
check_quality_score_scope(r) ==
    \/ r.scope = "paper" /\ r.paper_id # NULL /\ r.paper_version_id = NULL
    \/ r.scope = "version" /\ r.paper_version_id # NULL /\ r.paper_id = NULL

\* CheckConstraint check_score_range, line 60.
check_score_range(r) == r.score >= 0 /\ r.score <= 100

\* A session adds QualityScore r and commits: the row is stored when it passes
\* the table's check constraints, else the commit raises IntegrityError.
InsertQualityScore(r) ==
    /\ IF check_quality_score_scope(r) /\ check_score_range(r)
         THEN /\ qsRows' = qsRows \cup {r}
              /\ qsLast' = Some([row |-> r, outcome |-> "committed"])
         ELSE /\ qsLast' = Some([row |-> r, outcome |-> "IntegrityError"])
              /\ UNCHANGED qsRows
    /\ UNCHANGED linkVars
    /\ StoreFrame

\* Papers that can be a link's source, ClaimLink rows, source_doc_id values.
PaperIds == {1, 2}
LinkIds == {1, 2}
SourceDocs == {NULL, Some("doc")}

\* CheckConstraint check_source_exists, claim_link.py lines 42-45.
check_source_exists(l) == l.source_paper_id # NULL \/ l.source_doc_id # NULL

\* A session adds ClaimLink l and commits: stored when source_paper_id is null
\* or references a Paper and check_source_exists passes.
InsertClaimLink(l, sp, sd) ==
    /\ links[l] = NULL
    /\ LET row == [source_paper_id |-> sp, source_doc_id |-> sd]
       IN  IF (sp = NULL \/ sp[1] \in paperIds) /\ check_source_exists(row)
             THEN links' = [links EXCEPT ![l] = Some(row)]
             ELSE UNCHANGED links
    /\ UNCHANGED <<paperIds, deleteResult, scoreVars>>
    /\ StoreFrame

\* DELETE of Paper p. ondelete="SET NULL" (line 25) updates every link whose
\* source_paper_id is p; the updated rows are checked against
\* check_source_exists, and a violation fails the whole statement.
DeletePaper(p) ==
    /\ p \in paperIds
    /\ LET updated ==
             [l \in LinkIds |->
                IF links[l] # NULL /\ links[l][1].source_paper_id = Some(p)
                THEN Some([links[l][1] EXCEPT !.source_paper_id = NULL])
                ELSE links[l]]
       IN  IF \A l \in LinkIds :
                 updated[l] # NULL => check_source_exists(updated[l][1])
             THEN /\ paperIds' = paperIds \ {p}
                  /\ links' = updated
                  /\ deleteResult' = [deleteResult EXCEPT ![p] = "deleted"]
             ELSE /\ deleteResult' = [deleteResult EXCEPT ![p] = "IntegrityError"]
                  /\ UNCHANGED <<paperIds, links>>
    /\ UNCHANGED scoreVars
    /\ StoreFrame

(***************************************************************************)
(* Structured logging: log_step                                            *)
(***************************************************************************)
\* How often log_step is entered in a run of the model.
MaxEntries == 2

\* The steps log_step is entered for.
Steps == {"clone_repo", "execute_command"}

\* How the wrapped block ends: it completes, it raises an Exception with
\* message msg, or it is left by a BaseException that is no Exception
\* (KeyboardInterrupt, SystemExit, asyncio.CancelledError, GeneratorExit).
BlockExits ==
    {[kind |-> "normal", msg |-> ""], [kind |-> "Exception", msg |-> "m1"],
     [kind |-> "Exception", msg |-> ""], [kind |-> "KeyboardInterrupt", msg |-> ""],
     [kind |-> "SystemExit", msg |-> "m1"]}

\* log_event, lines 136-154: a field is put into the record when it is truthy.
log_event(event, status, error) ==
    [event |-> event,
     status |-> IF status # "" THEN Some(status) ELSE NULL,
     error |-> IF error # "" THEN Some(error) ELSE NULL]

\* Variables left alone by log_step.
LogFrame ==
    UNCHANGED <<jobVars, execVars, reviewVars, pipeVars, truncVars, paperVars,
                scoreVars, linkVars>>

\* lines 173-184: the start event is emitted and the block is entered.
LogEnter(step) ==
    /\ lpc = "outside"
    /\ Len(exits) < MaxEntries
    /\ lstep' = step
    /\ events' = Append(events, log_event(<<step, "_start">>, "", ""))
    /\ lpc' = "inside"
    /\ UNCHANGED exits
    /\ LogFrame

\* lines 185-209: the block ends with x. After a normal end the end event is
\* emitted; `except Exception` emits the error event and re-raises; any other
\* BaseException passes the except clause and nothing is emitted.
LogExit(x) ==
    /\ lpc = "inside"
    /\ exits' = Append(exits, x)
    /\ events' = CASE x.kind = "normal" ->
                        Append(events, log_event(<<lstep, "_end">>, "success", ""))
                   [] x.kind = "Exception" ->
                        Append(events, log_event(<<lstep, "_error">>, "failed", x.msg))
                   [] OTHER -> events
    /\ lpc' = "outside"
    /\ UNCHANGED lstep
    /\ LogFrame

\* The store of the paper hosting API with no request running, and no
\* log_step entered.
StoreIdle ==
    /\ PaperIdle
    /\ qsRows = {}
    /\ qsLast = NULL
    /\ paperIds = PaperIds
    /\ links = [l \in LinkIds |-> NULL]
    /\ deleteResult = [p \in PaperIds |-> "none"]
    /\ lpc = "outside"
    /\ lstep = "none"
    /\ events = <<>>
    /\ exits = <<>>

(***************************************************************************)
(* Specifications                                                          *)
(***************************************************************************)
Init ==
    /\ JobInit /\ settings = DefaultSettings /\ ExecIdle /\ ReviewInit
    /\ PipelineIdle /\ TruncIdle /\ StoreIdle

\* Every job id is enqueued once, by create_job, and handed to one worker.
Next ==
    \/ \E j \in Jobs : CreateJob(j)
    \/ \E j \in Jobs : EnqueueOk(j)
    \/ \E j \in Jobs : EnqueueFail(j)
    \/ \E w \in Workers, j \in Jobs : Dequeue(w, j)
    \/ \E w \in Workers : Fetch(w)
    \/ \E w \in Workers : SetRunning(w)
    \/ \E w \in Workers : Clone(w)
    \/ \E w \in Workers : Detect(w)
    \/ \E w \in Workers : Build(w)
    \/ \E w \in Workers : Execute(w)
    \/ \E w \in Workers : CreateRun(w)
    \/ \E w \in Workers : GenerateArtifacts(w)
    \/ \E w \in Workers : SetCompleted(w)
    \/ \E w \in Workers : Cleanup(w)
    \/ \E w \in Workers : HandleFailure(w)
    \/ \E w \in Workers : Finally(w)

Spec == Init /\ [][Next]_vars

\* One job whose id is delivered repeatedly: to a worker after an earlier
\* process_job returned, or to a second worker while the first is still at it.
RedeliveryNext ==
    \/ CreateJob(1)
    \/ EnqueueOk(1)
    \/ EnqueueFail(1)
    \/ Redeliver(1)
    \/ \E w \in Workers : Dequeue(w, 1)
    \/ \E w \in Workers : Fetch(w)
    \/ \E w \in Workers : SetRunning(w)
    \/ \E w \in Workers : Clone(w)
    \/ \E w \in Workers : Detect(w)
    \/ \E w \in Workers : Build(w)
    \/ \E w \in Workers : Execute(w)
    \/ \E w \in Workers : CreateRun(w)
    \/ \E w \in Workers : GenerateArtifacts(w)
    \/ \E w \in Workers : SetCompleted(w)
    \/ \E w \in Workers : Cleanup(w)
    \/ \E w \in Workers : HandleFailure(w)
    \/ \E w \in Workers : Finally(w)

RedeliverySpec == Init /\ [][RedeliveryNext]_vars

\* One call of execute_command under each combination of the docker_* settings.
ExecInit ==
    /\ JobInit /\ settings \in SettingsValues /\ ExecIdle /\ ReviewInit
    /\ PipelineIdle /\ TruncIdle /\ StoreIdle

ExecNext ==
    \/ ExecEnter
    \/ FromEnv
    \/ Preflight
    \/ Prepare
    \/ Launch
    \/ Wait
    \/ StopContainer
    \/ Logs
    \/ Remove

ExecSpec == ExecInit /\ [][ExecNext]_vars

\* Every review id is enqueued once, by create_review, and handed to one
\* worker.
ReviewNext ==
    \/ \E r \in Reviews : CreateReview(r)
    \/ \E r \in Reviews : ReviewEnqueueOk(r)
    \/ \E r \in Reviews : ReviewEnqueueFail(r)
    \/ \E w \in Workers, r \in Reviews : ReviewDequeue(w, r)
    \/ \E w \in Workers : ReviewFetch(w)
    \/ \E w \in Workers : SetProcessing(w)
    \/ \E w \in Workers : CreatePipeline(w)
    \/ \E w \in Workers : Invoke(w)
    \/ \E w \in Workers : CommitFinal(w)
    \/ \E w \in Workers : DirectIngest(w)
    \/ \E w \in Workers : Step2(w)
    \/ \E w \in Workers : ReviewExcept(w)
    \/ \E w \in Workers : ReviewFinally(w)

ReviewSpec == Init /\ [][ReviewNext]_vars

\* One run of the pipeline, through the compiled graph or through
\* run_pipeline_direct, from a state with or without a url and with or
\* without a paper_text.
PipelineInit ==
    /\ JobInit /\ settings = DefaultSettings /\ ExecIdle /\ ReviewInit /\ TruncIdle
    /\ StoreIdle
    /\ \E m \in {"langgraph", "direct"}, url \in {None, "url"},
          paper_text \in {"", "text"} : PipelineStart(m, url, paper_text)

PipelineNext ==
    \/ \E n \in Nodes : StartNode(n)
    \/ \E n \in Nodes : TaskFinish(n)
    \/ ApplyWrites
    \/ \E n \in Nodes : DirectAssign(n)

PipelineSpec == PipelineInit /\ [][PipelineNext]_vars

\* process_job where the commit of _handle_job_failure can fail as well.
CommitFaultNext ==
    \/ Next
    \/ \E w \in Workers : HandleFailure_CommitRaises(w)

CommitFaultSpec == Init /\ [][CommitFaultNext]_vars

\* One call of _truncate_log for each log and each byte budget.
TruncInit ==
    /\ JobInit /\ settings = DefaultSettings /\ ExecIdle /\ ReviewInit /\ PipelineIdle
    /\ StoreIdle
    /\ log_content \in LogValues
    /\ max_bytes \in 0..MaxBudget
    /\ tpc = "called"
    /\ truncated_log = <<>>

TruncNext == TruncateLog

TruncSpec == TruncInit /\ [][TruncNext]_vars

\* create_paper_version requests, soft deletes and writes of claims and scores
\* on one paper.
PaperNext ==
    \/ \E c \in Calls : CpvQuery(c)
    \/ \E c \in Calls : CpvMove(c)
    \/ \E c \in Calls : CpvCommit(c)
    \/ \E v \in VersionNumbers : SoftDeleteVersion(v)
    \/ SoftDeletePaper
    \/ \E v \in VersionNumbers : AddClaim(v)
    \/ \E v \in VersionNumbers : AddScore(v)

PaperSpec == Init /\ [][PaperNext]_vars

\* Inserts into quality_scores and claim_links, deletes of papers.
ConstraintNext ==
    \/ \E r \in ScoreAttempts : InsertQualityScore(r)
    \/ \E l \in LinkIds, sp \in {NULL} \cup {Some(p) : p \in PaperIds},
          sd \in SourceDocs : InsertClaimLink(l, sp, sd)
    \/ \E p \in PaperIds : DeletePaper(p)

ConstraintSpec == Init /\ [][ConstraintNext]_vars

\* Entries into log_step, one after the other.
LogNext ==
    \/ \E step \in Steps : LogEnter(step)
    \/ \E x \in BlockExits : LogExit(x)

LogSpec == Init /\ [][LogNext]_vars

(***************************************************************************)
(* Claims about the reproduction worker                                    *)
(***************************************************************************)
StatusChange(j, from, to) == jobs[j].status = from /\ jobs'[j].status = to

HasArtifactRow(j) == \E t \in ArtifactType : artifacts[j][t] > 0
AllArtifactRows(j) == \A t \in ArtifactType : artifacts[j][t] > 0

\* C1, first clause: running is entered only from pending.
C1_RunningOnlyFromPending ==
    [][\A j \in Jobs :
         (jobs[j].status # "running" /\ jobs'[j].status = "running")
            => jobs[j].status = "pending"]_vars

\* C1, second clause: completed and failed are entered only from running.
C1_TerminalOnlyFromRunning ==
    [][\A j \in Jobs :
         (jobs'[j].status \in {"completed", "failed"}
            /\ jobs'[j].status # jobs[j].status)
            => jobs[j].status = "running"]_vars

\* C1, third clause: a completed or failed job never changes status again.
C1_TerminalIsFinal ==
    [][\A j \in Jobs :
         jobs[j].status \in {"completed", "failed"}
            => jobs'[j].status = jobs[j].status]_vars

\* C1: for every Job, under create_job requests, deliveries of process_job
\* (a repeated delivery of the same id included) and failure handling, the
\* committed status values form a prefix of pending -> running ->
\* (completed | failed): every change of a job's committed status is the
\* insert as pending, pending -> running, running -> completed or
\* running -> failed.
C1_StatusPrefix ==
    [][\A j \in Jobs :
         jobs'[j].status # jobs[j].status
            => <<jobs[j].status, jobs'[j].status>> \in
                 {<<"absent", "pending">>, <<"pending", "running">>,
                  <<"running", "completed">>, <<"running", "failed">>}]_vars

\* C2: a job's status changes to completed only when every Artifact row of the
\* job is already committed, so whoever reads completed can read the report,
\* the notebook and the badge rows.
C2_CompletedAfterArtifacts ==
    /\ [](\A j \in Jobs : jobs[j].status = "completed" => AllArtifactRows(j))
    /\ [][\A j \in Jobs :
            (jobs[j].status # "completed" /\ jobs'[j].status = "completed")
               => AllArtifactRows(j)]_vars

C2_Witness ==
    \E j \in Jobs : jobs[j].status = "completed" /\ AllArtifactRows(j)

\* C3: at every moment every committed Artifact row belongs to an existing Job
\* whose status is completed: no row for a pending, running or failed job.
C3_ArtifactsOnlyOfCompletedJobs ==
    \A j \in Jobs : HasArtifactRow(j) => jobs[j].status = "completed"

\* C4: every completed Job has exactly one Run row, with exit_code, started_at
\* and completed_at not null and duration_seconds greater than 0.
C4_CompletedHasOneRun ==
    \A j \in Jobs :
        jobs[j].status = "completed"
           => /\ Len(runs[j]) = 1
              /\ runs[j][1].exit_code # NULL
              /\ runs[j][1].started_at # NULL
              /\ runs[j][1].completed_at # NULL
              /\ runs[j][1].duration_seconds # NULL
              /\ runs[j][1].duration_seconds[1] > 0

C4_Witness ==
    \E j \in Jobs : jobs[j].status = "completed" /\ Len(runs[j]) = 1

\* C5: when two workers execute process_job for the same job id concurrently,
\* at most one Run row is committed for the job and the job is never moved
\* from completed to failed or from failed to completed.
C5_NoDoubleCommit ==
    /\ [](\A j \in Jobs : Len(runs[j]) <= 1)
    /\ [][\A j \in Jobs :
            /\ ~StatusChange(j, "completed", "failed")
            /\ ~StatusChange(j, "failed", "completed")]_vars

\* C6: whenever process_job has returned, on the success path and on every
\* failure path, the directory the job's repository was cloned into no longer
\* exists and the image built for the job has been removed.
C6_CleanOnReturn ==
    \A w \in Workers :
        pc[w] = "returned" => ~repoDir[jid[w]] /\ ~image[jid[w]]

C17_StartedAtIsLaunchTime ==
    /\ [](\A j \in Jobs : \A i \in 1..Len(runs[j]) :
             runs[j][i].completed_at[1] - runs[j][i].started_at[1]
                >= runs[j][i].duration_seconds[1])
    /\ [][\A w \in Workers :
             (pc[w] = "create_run" /\ pc'[w] = "artifacts")
                => runs'[jid[w]][Len(runs'[jid[w]])].started_at = result[w].started_at]_vars

\* C18: the badge file written for a job that ends completed carries the text
\* of the completed status (Reproducible, green), not that of an intermediate
\* status.
C18_BadgeShowsFinalStatus ==
    \A j \in Jobs :
        jobs[j].status = "completed" => badgeFile[j] = BadgeText("completed")

C28_ReturnedJobIsTerminal ==
    \A w \in Workers :
        (pc[w] = "returned" /\ jobs[jid[w]].status # "absent")
           => jobs[jid[w]].status \in {"completed", "failed"}

(***************************************************************************)
(* Claims about the sandbox executor                                       *)
(***************************************************************************)
\* The configurations the claim names: the container user is empty, root or
\* "0", or the UID is 0, or the CPU limit is not greater than 0, or the memory
\* limit is empty, or the network mode is neither none nor bridge.
BadConfig(s) ==
    \/ s.docker_user \in {NULL, Some(<<>>), Some(root), Some(<<"0">>)}
    \/ s.docker_user_uid = Some(0)
    \/ s.docker_cpu_limit <= 0
    \/ s.docker_memory_limit \in {NULL, Some(<<>>)}
    \/ s.docker_network_mode \notin {"none", "bridge"}

\* C8: under such a configuration execute_command never calls containers.run,
\* no container exists, execute_command does not get past the preflight, and
\* when it has ended it has raised ExecutionError.
C8_BadConfigNeverLaunches ==
    BadConfig(settings)
       => /\ runCalls = 0
          /\ container = "none"
          /\ epc \in {"idle", "from_env", "preflight", "raised"}
          /\ epc = "raised" => eerr.kind = "ExecutionError"

C8_Witness ==
    /\ settings.docker_user = Some(arandu_user)
    /\ settings.docker_user_uid = Some(0)
    /\ settings.docker_cpu_limit > 0
    /\ settings.docker_network_mode = "bridge"
    /\ epc = "raised"
    /\ eerr = [kind |-> "ExecutionError",
               msg |-> <<"Security violation: containers must run as non-root user">>]
    /\ runCalls = 0

\* C15: when the container does not exit within the timeout, execute_command
\* does not return a result; it calls container.stop once, with a grace period
\* of 5 seconds, and then raises ExecutionTimeoutError, not ExecutionError.
C15_TimeoutStopsThenRaisesTimeout ==
    waitOutcome = "timeout"
       => /\ epc \in {"stop", "raised"}
          /\ epc = "raised"
               => /\ eerr.kind = "ExecutionTimeoutError"
                  /\ stopArgs = <<5>>

C15_Witness ==
    /\ waitOutcome = "timeout"
    /\ epc = "raised"
    /\ eerr.kind = "ExecutionTimeoutError"
    /\ stopArgs = <<5>>
    /\ container = "running"

\* C27: when execute_command has returned or raised, no container it launched
\* is left: the container is removed on the timeout path and the wait-failure
\* path as well as after the logs were read.
C27_ContainerRemovedOnEveryExit ==
    epc \in {"returned", "raised"}
       => container \notin {"running", "stopped", "exited"}

\* The bytes form well-formed UTF-8: every lead byte is followed by its
\* continuation bytes and no continuation byte stands alone.
RECURSIVE ValidUtf8(_)
ValidUtf8(b) ==
    IF b = <<>> THEN TRUE
    ELSE IF b[1] = "ascii" THEN ValidUtf8(Tail(b))
    ELSE IF b[1] = "lead2"
    THEN Len(b) >= 2 /\ b[2] = "cont" /\ ValidUtf8(SubSeq(b, 3, Len(b)))
    ELSE IF b[1] = "lead3"
    THEN Len(b) >= 3 /\ b[2] = "cont" /\ b[3] = "cont"
         /\ ValidUtf8(SubSeq(b, 4, Len(b)))
    ELSE FALSE

\* C16: for every log and every byte budget, what _truncate_log returns
\* encodes to valid UTF-8 of at most max_bytes bytes, the truncation marker
\* included.
C16_TruncateFitsBudget ==
    tpc = "returned"
       => /\ ValidUtf8(Encode(truncated_log))
          /\ Len(Encode(truncated_log)) <= max_bytes

(***************************************************************************)
(* Claims about the review worker                                          *)
(***************************************************************************)
\* C9: for every Review the committed status values form a prefix of
\* pending -> processing -> (completed | failed): every change of a review's
\* committed status is the insert as pending, pending -> processing,
\* processing -> completed or processing -> failed.
C9_StatusPrefix ==
    [][\A r \in Reviews :
         reviews'[r].status # reviews[r].status
            => <<reviews[r].status, reviews'[r].status>> \in
                 {<<"absent", "pending">>, <<"pending", "processing">>,
                  <<"processing", "completed">>, <<"processing", "failed">>}]_vars

\* C9, its last clause: a Review whose pipeline run ended with status completed
\* is committed as completed and is not changed to failed afterwards.
C9_CompletedIsFinal ==
    [][\A r \in Reviews :
         reviews[r].status = "completed" => reviews'[r].status = "completed"]_vars

(***************************************************************************)
(* Claims about the review pipeline                                        *)
(***************************************************************************)
\* C10, first clause: quality_score starts only after both
\* citation_suggestion and checklist_generation have finished.
C10_JoinAfterBothBranches ==
    [][starts'["quality_score"] > starts["quality_score"]
         => /\ finishes["citation_suggestion"] >= 1
            /\ finishes["checklist_generation"] >= 1]_vars

\* C10: in every execution of the pipeline, through the graph and through
\* run_pipeline_direct, quality_score starts only after both
\* citation_suggestion and checklist_generation have finished, no node runs
\* twice, and when the execution has ended each of the seven nodes has run
\* exactly once.
C10_EachNodeOnceJoinAfterBoth ==
    /\ C10_JoinAfterBothBranches
    /\ [](\A n \in Nodes : starts[n] <= 1)
    /\ [](ppc \in {"returned", "raised"}
            => \A n \in Nodes : starts[n] = 1 /\ finishes[n] = 1)

\* C11: citation_suggestion and checklist_generation write disjoint sets of
\* keys on every path: whenever both have returned in the same parallel step,
\* no key is in both dictionaries they returned.
C11_DisjointBranchWrites ==
    {"citation_suggestion", "checklist_generation"} \subseteq DOMAIN writes
       => DOMAIN writes["citation_suggestion"]
            \cap DOMAIN writes["checklist_generation"] = {}

\* The steps named by the records of a state's errors list.
ErrorSteps(s) ==
    IF "errors" \in DOMAIN s THEN {s["errors"][i] : i \in 1..Len(s["errors"])} ELSE {}

\* C12: after a pipeline run the state's errors list holds a record for every
\* node whose body raised, and no step of the run removes a record that the
\* list already held: errors accumulate.
C12_ErrorsAccumulate ==
    /\ [](ppc = "returned" => raisedIn \subseteq ErrorSteps(channels))
    /\ [][ErrorSteps(channels) \subseteq ErrorSteps(channels')]_vars

\* ingestion_node's body raised while it had no paper_text.
IngestionFailedWithoutText ==
    /\ "ingestion" \in raisedIn
    /\ ~Truthy(Get(nodeInput["ingestion"], "paper_text"))

\* C13: if ingestion fails and no paper_text is available, the state's status
\* is failed when the pipeline ends, and no later node sets it to completed.
C13_IngestionFailureStaysFailed ==
    /\ [](IngestionFailedWithoutText /\ ppc = "returned"
            => Get(channels, "status") = "failed")
    /\ [][IngestionFailedWithoutText => Get(channels', "status") # "completed"]_vars

\* C14: when run_pipeline_direct returns, the state it returns is the initial
\* state with each node's partial update merged in: review_id and the input
\* fields are those of the initial state, and every slot a node wrote is
\* present with the value written last.
C14_DirectReturnsMergedState ==
    (pmode = "direct" /\ ppc = "returned")
       => /\ \A k \in {"review_id", "url", "doi", "pdf_file_path", "repo_url"} :
               k \in DOMAIN channels /\ channels[k] = input0[k]
          /\ \A k \in DOMAIN merged :
               k \in DOMAIN channels /\ channels[k] = merged[k]

\* C20: when paper_text is non-empty at the start of the run, ingestion never
\* calls ingest_paper, whether or not a url, doi or pdf path is set, and
\* claim_extraction is called with that same paper_text.
C20_PrepopulatedTextSkipsIngestion ==
    Truthy(Get(input0, "paper_text"))
       => /\ ingestCalls = 0
          /\ starts["claim_extraction"] >= 1
                => Get(nodeInput["claim_extraction"], "paper_text")
                     = Get(input0, "paper_text")

\* ingest_paper was called and returned: ingestion succeeded.
IngestionSucceeded ==
    /\ finishes["ingestion"] >= 1
    /\ ingestCalls >= 1
    /\ "ingestion" \notin raisedIn

\* C29: when ingestion succeeded, the paper_meta and paper_text it assigned
\* are in the dictionary claim_extraction and every later node is called with
\* and in the final state, on the graph path and on the direct path.
C29_IngestedTextReachesLaterNodes ==
    IngestionSucceeded
       => LET assigned == ingestion_assigned(nodeInput["ingestion"])
          IN  /\ \A n \in Nodes \ {"ingestion"} :
                   starts[n] >= 1
                      => /\ Get(nodeInput[n], "paper_text") = assigned["paper_text"]
                         /\ Get(nodeInput[n], "paper_meta") = assigned["paper_meta"]
              /\ ppc = "returned"
                   => /\ Get(channels, "paper_text") = assigned["paper_text"]
                      /\ Get(channels, "paper_meta") = assigned["paper_meta"]

(***************************************************************************)
(* Claims about paper hosting                                              *)
(***************************************************************************)
\* The calls whose insert of version v has been decided.
Decided(v) ==
    {c \in Calls : new_version[c] = v /\ cpc[c] \in {"created", "integrity_error"}}

\* C21: when several sessions try to insert a PaperVersion with the same
\* (aid, version), under every interleaving exactly one insert commits and
\* every other attempt fails with a uniqueness violation: there is at most one
\* row per version, and of the decided inserts of a version that had no row
\* exactly one was committed.
C21_OneInsertPerVersion ==
    \A v \in VersionNumbers :
        /\ Cardinality({r \in versions : r.version = v}) <= 1
        /\ Decided(v) # {}
              => /\ \E r \in versions : r.version = v
                 /\ \A r \in versions :
                      (r.version = v /\ r.by \in Calls)
                         => {c \in Decided(v) : cpc[c] = "created"} = {r.by}
                 /\ \A r \in versions :
                      (r.version = v /\ r.by \notin Calls)
                         => {c \in Decided(v) : cpc[c] = "created"} = {}

C21_Witness ==
    \E c, d \in Calls :
        /\ c # d
        /\ new_version[c] = 2 /\ new_version[d] = 2
        /\ cpc[c] = "created" /\ cpc[d] = "integrity_error"
        /\ Cardinality({r \in versions : r.version = 2}) = 1

\* C22: each successful create_paper_version call stores version max(v) + 1
\* over all rows of the paper, soft deleted ones included, so versions are
\* allocated in increasing order and no number is used twice, also after a
\* soft delete and with concurrent calls.
C22_NextVersionIsMaxPlusOne ==
    /\ [][\A c \in Calls :
             (cpc[c] = "commit" /\ cpc'[c] = "created")
                => /\ new_version[c] = Max({r.version : r \in versions}) + 1
                   /\ [version |-> new_version[c], by |-> c, deleted |-> FALSE]
                        \in versions']_vars
    /\ [](\A r, q \in versions : r.version = q.version => r.by = q.by)

C22_Witness ==
    \E c, d \in Calls :
        /\ cpc[c] = "created" /\ new_version[c] = 2
        /\ cpc[d] = "created" /\ new_version[d] = 3
        /\ \E r \in versions : r.version = 1 /\ r.deleted

\* The rows a default query must not see: versions that are soft deleted.
HiddenVersions == {r.version : r \in versions \ LiveVersions}

\* C25: a soft delete never removes the row, and afterwards get_paper, the
\* viewer and get_paper_claims neither return nor serve nor count the soft
\* deleted row or the claims and scores that belong only to it.
C25_SoftDeleteHidesRows ==
    /\ [][\A r \in versions : \E q \in versions' :
             q.version = r.version /\ q.by = r.by]_vars
    /\ [](paperDeleted
            => /\ get_paper.status = 404
               /\ \A v \in {0} \cup VersionNumbers :
                    /\ get_paper_viewer(v).status = 404
                    /\ get_paper_claims(v).status = 404)
    /\ [](~paperDeleted
            => /\ get_paper.latest_version = NULL
                    \/ get_paper.latest_version[1] \notin HiddenVersions
               /\ get_paper.versions = Cardinality(LiveVersions)
               /\ get_paper.claims = Cardinality(claimRows \ HiddenVersions)
               /\ get_paper.scores = Cardinality(scoreRows \ HiddenVersions)
               /\ \A v \in {0} \cup VersionNumbers :
                    /\ get_paper_viewer(v).status = 200
                          => get_paper_viewer(v).version \notin HiddenVersions
                    /\ get_paper_claims(v).status = 200
                          => get_paper_claims(v).version \notin HiddenVersions)

\* C30: once a PaperVersion row is written the file at its storage path is
\* never replaced, whatever create_paper_version calls run: concurrently,
\* after a soft delete, or failing at their commit.
C30_StoredPdfNeverReplaced ==
    [][\A r \in versions : pdfFiles'[r.version] = pdfFiles[r.version]]_vars

\* Exactly one of paper_id and paper_version_id of row r is non-null, and it
\* is the one scope names.
ScopeMatches(r) ==
    \/ r.scope = "paper" /\ r.paper_id # NULL /\ r.paper_version_id = NULL
    \/ r.scope = "version" /\ r.paper_version_id # NULL /\ r.paper_id = NULL

C24_SourceDeleteNullsLink ==
    /\ [](\A p \in PaperIds : deleteResult[p] # "IntegrityError")
    /\ [][\A p \in PaperIds, l \in LinkIds :
             (/\ deleteResult'[p] = "deleted" /\ p \in paperIds
              /\ links[l] # NULL /\ links[l][1].source_paper_id = Some(p))
                => /\ links'[l] # NULL
                   /\ links'[l][1].source_paper_id = NULL
                   /\ links'[l][1].source_doc_id = links[l][1].source_doc_id]_vars

\* The exit event entry i of log_step owes: <step>_end with status success
\* after a normal end of the block, else <step>_error with status failed and
\* the message of what was raised.
IsExitEventOf(ev, start, x) ==
    /\ ev.event[1] = start.event[1]
    /\ IF x.kind = "normal"
         THEN ev.event[2] = "_end" /\ ev.status = Some("success")
         ELSE /\ ev.event[2] = "_error" /\ ev.status = Some("failed")
              /\ x.msg # "" => ev.error = Some(x.msg)

\* C26: for every entry into log_step, however the wrapped block ends,
\* exactly one exit event follows the start event: once the block is left the
\* log holds, for each entry, the start event and then its exit event.
C26_ExitEventAlwaysEmitted ==
    lpc = "outside"
       => /\ Len(events) = 2 * Len(exits)
          /\ \A i \in 1..Len(exits) :
               /\ events[2 * i - 1].event[2] = "_start"
               /\ IsExitEventOf(events[2 * i], events[2 * i - 1], exits[i])

====
